---- MODULE Spec2Model ----
(***************************************************************************)
(* A model of the concordance pattern-matching library: symbol ranges, the *)
(* symbol map that removes overlaps between ranges, the NDFA, the subset   *)
(* construction, the range DFA, the match driver and the tokenizer.        *)
(***************************************************************************)
EXTENDS Integers, Sequences, FiniteSets, TLC

\* ------------------------------------------------------------------------
\* Bounds
\* ------------------------------------------------------------------------

\* Greatest symbol of the (small, unsigned) symbol type
SymTop == 6

\* Greatest number of distinct ranges added to a symbol map
MaxRanges == 3

\* Greatest number of ranges to_non_overlapping_map is followed to emit
MaxEmitted == 8

\* Greatest symbol used in the ranges of NDFA transitions
NdfaSymTop == 2

\* Greatest state id handed to the NDFA builder
MaxState == 1

\* Greatest number of add_transition calls
MaxTransitions == 2

\* Greatest number of join_states calls
MaxJoins == 2

\* Greatest number of set_output_symbol calls
MaxOutputs == 2

\* Greatest output symbol (output symbols are ordered as the integers)
MaxOutputSymbol == 1
MaxWord == 3
MaxDfaStates == 2
MaxDfaTransitions == 2
MaxStream == 3
MaxPatterns == 2
MaxTokenStream == 5
MaxTokenizerStream == 4
MaxNumberStream == 3
MaxAnnotatedStream == 4
MaxTapeStream == 6
MaxBaseTokens == 3
MaxLayers == 3
MaxRewind == 3

\* Greatest state id of an NDFA that is only built and read back
MaxJoinState == 2

\* Greatest length of the source of a split reader
MaxSplitStream == 3

\* Greatest number of reads a split reader makes past the end of its source
MaxEndReads == 2

\* Greatest length of the inputs of two tokenizers sharing a DFA
MaxSharedStream == 3

\* Greatest number of calls made on each of two tokenizers sharing a DFA
MaxSharedCalls == 2

\* Greatest bound of a repetition
MaxRepeat == 4

\* Greatest number of alternatives of an alternation
MaxAlternatives == 2

\* Greatest length of the free symbol streams a prepared pattern is run on
MaxPatternStream == 4

Symbols == 0..SymTop

StateIds == 0..MaxState

OutputSymbols == 0..MaxOutputSymbol

\* The ranges the NDFA builder is given
NdfaRanges == { r \in [lowest : 0..NdfaSymTop, highest : 0..NdfaSymTop] : r.lowest <= r.highest }

\* Every range SymbolRange::new can return over the symbol type
AllRanges == { r \in [lowest : Symbols, highest : Symbols] : r.lowest <= r.highest }

\* ------------------------------------------------------------------------
\* Sequence helpers (Vec operations)
\* ------------------------------------------------------------------------

Last(s) == s[Len(s)]

Front(s) == SubSeq(s, 1, Len(s) - 1)

Reverse(s) == [i \in 1..Len(s) |-> s[Len(s) + 1 - i]]

\* Vec::insert(pos, x) with a 0-based position
InsertAt(s, pos, x) == SubSeq(s, 1, pos) \o <<x>> \o SubSeq(s, pos + 1, Len(s))

SeqRange(s) == { s[i] : i \in 1..Len(s) }

\* ------------------------------------------------------------------------
\* countable.rs, symbol_range.rs
\* ------------------------------------------------------------------------

\* Countable::next for a fixed-width unsigned integer (wraps in a release build)
CountableNext(s) == (s + 1) % (SymTop + 1)

\* Countable::prev for a fixed-width unsigned integer (wraps in a release build)
CountablePrev(s) == (s + SymTop) % (SymTop + 1)

\* new keeping the bounds as they are given
NewRangeAsGiven(lowest, highest) == [lowest |-> lowest, highest |-> highest]

\* SymbolRange::new: swaps reversed bounds
NewRange(lowest, highest) ==
    IF lowest > highest
    THEN [lowest |-> highest, highest |-> lowest]
    ELSE [lowest |-> lowest, highest |-> highest]

\* SymbolRange::join
range_join(self, with) ==
    [lowest  |-> IF with.lowest < self.lowest THEN with.lowest ELSE self.lowest,
     highest |-> IF with.highest < self.highest THEN self.highest ELSE with.highest]

\* SymbolRange::overlaps
Overlaps(self, with) ==
    IF self.highest < with.lowest THEN FALSE
    ELSE IF self.lowest > with.highest THEN FALSE
    ELSE TRUE

\* SymbolRange::includes
Includes(self, symbol) == self.lowest <= symbol /\ symbol <= self.highest

\* ------------------------------------------------------------------------
\* overlapping_symbols.rs
\* ------------------------------------------------------------------------

\* SymbolMap::order_symbols
order_symbols(a, b) ==
    IF a < b THEN "Less" ELSE IF a > b THEN "Greater" ELSE "Equal"

\* SymbolMap::order_ranges: lowest ascending, then highest descending
order_ranges(a, b) ==
    LET ordering == order_symbols(a.lowest, b.lowest)
    IN  IF ordering = "Equal" THEN order_symbols(b.highest, a.highest) ELSE ordering

\* slice::binary_search_by over the comparator results cmps[i] = f(element i);
\* positions are 0-based as in the code
RECURSIVE BinarySearchLoop(_, _, _)
BinarySearchLoop(cmps, left, right) ==
    IF left < right
    THEN LET mid == left + ((right - left) \div 2)
             cmp == cmps[mid + 1]
         IN  IF cmp = "Less" THEN BinarySearchLoop(cmps, mid + 1, right)
             ELSE IF cmp = "Greater" THEN BinarySearchLoop(cmps, left, mid)
             ELSE [found |-> TRUE, pos |-> mid]
    ELSE [found |-> FALSE, pos |-> left]

BinarySearchBy(cmps) == BinarySearchLoop(cmps, 0, Len(cmps))

\* SymbolMap::add_range
add_range(rs, range) ==
    LET existing == BinarySearchBy([i \in 1..Len(rs) |-> order_ranges(rs[i], range)])
    IN  IF existing.found THEN rs ELSE InsertAt(rs, existing.pos, range)

\* One iteration of the while loop of SymbolMap::to_non_overlapping_map.
\* stack is to_process (top of the stack is the last element), out is result.
\* overflow records a next() on the greatest symbol or a prev() on the least.
LoopBody(stack, out) ==
    LET might_overlap == Last(stack)
        rest1         == Front(stack)
    IN  IF rest1 = <<>>
        THEN [to_process |-> <<>>, result |-> Append(out, might_overlap), overflow |-> FALSE]
        ELSE
        LET overlap_with == Last(rest1)
            rest2        == Front(rest1)
        IN  IF ~Overlaps(might_overlap, overlap_with)
            THEN [to_process |-> Append(rest2, overlap_with),
                  result     |-> Append(out, might_overlap),
                  overflow   |-> FALSE]
            ELSE IF might_overlap = overlap_with
            THEN [to_process |-> Append(rest2, overlap_with),
                  result     |-> out,
                  overflow   |-> FALSE]
            ELSE IF might_overlap.lowest = overlap_with.lowest
            THEN LET smaller_range == overlap_with
                     larger_range  == might_overlap
                     larger_range_without_smaller_range ==
                         NewRange(CountableNext(smaller_range.highest), larger_range.highest)
                     pushed == Append(rest2, smaller_range)
                     search == BinarySearchBy([i \in 1..Len(pushed) |->
                                   order_ranges(larger_range_without_smaller_range, pushed[i])])
                 IN  [to_process |-> IF search.found THEN pushed
                                     ELSE InsertAt(pushed, search.pos, larger_range_without_smaller_range),
                      result     |-> out,
                      overflow   |-> smaller_range.highest = SymTop]
            ELSE [to_process |-> Append(Append(rest2, overlap_with),
                                        NewRange(overlap_with.lowest, might_overlap.highest)),
                  result     |-> Append(out, NewRange(might_overlap.lowest,
                                                      CountablePrev(overlap_with.lowest))),
                  overflow   |-> overlap_with.lowest = 0]

\* The index loop of SymbolMap::find_overlapping_ranges (pos is 0-based)
RECURSIVE FindOverlappingLoop(_, _, _)
FindOverlappingLoop(rs, range, pos) ==
    IF pos < Len(rs) /\ rs[pos + 1].lowest <= range.highest
    THEN <<rs[pos + 1]>> \o FindOverlappingLoop(rs, range, pos + 1)
    ELSE <<>>

\* find_overlapping_ranges starting at the position the search gave
find_overlapping_rangesNoStepBack(rs, range) ==
    LET existing == BinarySearchBy([i \in 1..Len(rs) |-> order_ranges(rs[i], range)])
    IN  FindOverlappingLoop(rs, range, existing.pos)

\* SymbolMap::find_overlapping_ranges
find_overlapping_ranges(rs, range) ==
    LET existing == BinarySearchBy([i \in 1..Len(rs) |-> order_ranges(rs[i], range)])
        pos      == IF existing.pos > 0 /\ rs[existing.pos].highest >= range.lowest
                    THEN existing.pos - 1
                    ELSE existing.pos
    IN  FindOverlappingLoop(rs, range, pos)

\* ------------------------------------------------------------------------
\* ndfa.rs
\* ------------------------------------------------------------------------

Max(a, b) == IF a > b THEN a ELSE b

\* Vec growth: "while v.len() <= index { v.push(vec![]) }"
ExpandTo(v, index) ==
    IF Len(v) <= index THEN v \o [i \in 1..(index + 1 - Len(v)) |-> <<>>] ELSE v

\* Ndfa::new
NewNdfa ==
    [max_state |-> 0, transitions |-> <<>>, joined_with |-> <<>>, output_symbols |-> <<>>]

\* Ndfa::add_transition
add_transition(n, state, for_symbol, new_state) ==
    LET expanded == ExpandTo(n.transitions, state)
    IN  [n EXCEPT !.max_state   = Max(Max(n.max_state, new_state), state),
                  !.transitions = [expanded EXCEPT ![state + 1] =
                                      Append(expanded[state + 1], <<for_symbol, new_state>>)]]

\* Ndfa::create_state
create_state(n, state) == [n EXCEPT !.max_state = Max(n.max_state, state)]

\* Ndfa::set_output_symbol (HashMap::insert)
set_output_symbol(n, state, new_output_symbol) ==
    [n EXCEPT !.max_state      = Max(n.max_state, state),
              !.output_symbols = [x \in (DOMAIN n.output_symbols) \cup {state} |->
                                     IF x = state THEN new_output_symbol
                                     ELSE n.output_symbols[x]]]

\* Ndfa::join_states
join_states(n, first_state, second_state) ==
    LET expanded == ExpandTo(n.joined_with, first_state)
    IN  [n EXCEPT !.max_state   = Max(Max(n.max_state, first_state), second_state),
                  !.joined_with = [expanded EXCEPT ![first_state + 1] =
                                      Append(expanded[first_state + 1], second_state)]]

\* Ndfa::count_states
ndfa_count_states(n) == n.max_state + 1

\* Concatenation of a sequence of sequences (flat_map(..).collect())
RECURSIVE Flatten(_)
Flatten(ss) == IF ss = <<>> THEN <<>> ELSE Head(ss) \o Flatten(Tail(ss))

\* The symbol map fix_overlapping_ranges gathers: add_range for every transition
RECURSIVE GatherRanges(_, _)
GatherRanges(transits, map) ==
    IF transits = <<>> THEN map
    ELSE GatherRanges(Tail(transits), add_range(map, Head(transits)[1]))

\* FixedTransitions with the original range pushed for every piece found
FixedTransitionsOriginalRange(transitions, no_overlapping) ==
    [st \in 1..Len(transitions) |->
        Flatten([t \in 1..Len(transitions[st]) |->
            LET pieces == find_overlapping_ranges(no_overlapping, transitions[st][t][1])
            IN  [k \in 1..Len(pieces) |-> <<transitions[st][t][1], transitions[st][t][2]>>]])]

\* The new transitions fix_overlapping_ranges writes from the map no_overlapping
FixedTransitions(transitions, no_overlapping) ==
    [st \in 1..Len(transitions) |->
        Flatten([t \in 1..Len(transitions[st]) |->
            LET pieces == find_overlapping_ranges(no_overlapping, transitions[st][t][1])
            IN  [k \in 1..Len(pieces) |-> <<pieces[k], transitions[st][t][2]>>]])]

\* Option::None for output symbols
None == -1

\* The elements of a set of numbers in ascending order
RECURSIVE AscendingSeq(_)
AscendingSeq(set) ==
    IF set = {} THEN <<>>
    ELSE LET least == CHOOSE x \in set : \A y \in set : x <= y
         IN  <<least>> \o AscendingSeq(set \ {least})

\* The stack loop of Ndfa::get_join_closure
RECURSIVE JoinClosureLoop(_, _, _)
JoinClosureLoop(n, stack, closure) ==
    IF stack = <<>> THEN closure
    ELSE LET next_state == Last(stack)
             rest       == Front(stack)
         IN  IF next_state \notin closure
             THEN JoinClosureLoop(n,
                      IF next_state < Len(n.joined_with)
                      THEN rest \o n.joined_with[next_state + 1]
                      ELSE rest,
                      closure \cup {next_state})
             ELSE JoinClosureLoop(n, rest, closure)

\* get_join_closure stopping at the states joined directly
get_join_closureDirectOnly(n, state) ==
    {state} \cup (IF state < Len(n.joined_with)
                  THEN SeqRange(n.joined_with[state + 1])
                  ELSE {})

\* Ndfa::get_join_closure
get_join_closure(n, state) == JoinClosureLoop(n, <<state>>, {})

\* get_transitions_for_state reading only the state's own transitions
get_transitions_for_stateOwnOnly(n, state) ==
    IF state < Len(n.transitions) THEN n.transitions[state + 1] ELSE <<>>

\* Ndfa::get_transitions_for_state.  The closure is a HashSet and is walked in an
\* unspecified order; it is walked in ascending order here, and every use sorts
\* the transitions by range and the merged targets by id, so the order has no
\* effect.
get_transitions_for_state(n, state) ==
    LET joined_states == AscendingSeq(get_join_closure(n, state))
    IN  Flatten([i \in 1..Len(joined_states) |->
                    IF joined_states[i] < Len(n.transitions)
                    THEN n.transitions[joined_states[i] + 1]
                    ELSE <<>>])

\* The values Ndfa::output_symbol_for_state can return: the state's own symbol,
\* otherwise the symbol of whichever joined state the HashSet yields first
output_symbol_for_state(n, state) ==
    IF state \in DOMAIN n.output_symbols
    THEN {n.output_symbols[state]}
    ELSE LET joined == { n.output_symbols[j] :
                             j \in get_join_closure(n, state) \cap DOMAIN n.output_symbols }
         IN  IF joined = {} THEN {None} ELSE joined

\* ------------------------------------------------------------------------
\* dfa_compiler.rs, symbol_range_dfa.rs (builder)
\* ------------------------------------------------------------------------

\* The ordering of SymbolRange: lowest, then highest
range_cmp(a, b) ==
    IF a.lowest # b.lowest
    THEN order_symbols(a.lowest, b.lowest)
    ELSE order_symbols(a.highest, b.highest)

\* Insertion of x behind every entry that does not order after it (stable)
RECURSIVE InsertSorted(_, _)
InsertSorted(sorted, x) ==
    IF sorted = <<>> THEN <<x>>
    ELSE IF range_cmp(Head(sorted)[1], x[1]) = "Greater"
         THEN <<x>> \o sorted
         ELSE <<Head(sorted)>> \o InsertSorted(Tail(sorted), x)

\* transitions.sort_by(symbol): a stable sort
RECURSIVE SortBySymbol(_)
SortBySymbol(transits) ==
    IF transits = <<>> THEN <<>>
    ELSE InsertSorted(SortBySymbol(Front(transits)), Last(transits))

\* DfaState::dedupe: sort and dedup the source states
dedupe(source_states) == AscendingSeq(SeqRange(source_states))

\* The combining loop of DfaTransitions::merge_states over sorted transitions
RECURSIVE MergeLoop(_, _)
MergeLoop(new_transitions, remaining) ==
    IF remaining = <<>> THEN new_transitions
    ELSE LET len          == Len(new_transitions)
             this_transit == Head(remaining)
         IN  IF new_transitions[len][1] = this_transit[1]
             THEN MergeLoop([new_transitions EXCEPT ![len] =
                                <<@[1], @[2] \o this_transit[2]>>], Tail(remaining))
             ELSE MergeLoop(Append(new_transitions, this_transit), Tail(remaining))

\* merge_states without the sort of the transitions
merge_statesUnsorted(transits) ==
    IF Len(transits) > 0
    THEN LET merged == MergeLoop(<<transits[1]>>, Tail(transits))
         IN  [i \in 1..Len(merged) |-> <<merged[i][1], dedupe(merged[i][2])>>]
    ELSE transits

\* DfaTransitions::merge_states
merge_states(transits) ==
    IF Len(transits) > 0
    THEN LET sorted == SortBySymbol(transits)
             merged == MergeLoop(<<sorted[1]>>, Tail(sorted))
         IN  [i \in 1..Len(merged) |-> <<merged[i][1], dedupe(merged[i][2])>>]
    ELSE transits

\* output_symbol taking the greatest of the collected output symbols
output_symbolGreatest(output) ==
    IF Len(output) > 0
    THEN CHOOSE o \in SeqRange(output) : \A other \in SeqRange(output) : o >= other
    ELSE None

\* DfaTransitions::output_symbol: the least of the collected output symbols
output_symbol(output) ==
    IF Len(output) > 0
    THEN CHOOSE o \in SeqRange(output) : \A other \in SeqRange(output) : o <= other
    ELSE None

\* HashMap::insert
MapInsert(map, key, value) ==
    [k \in (DOMAIN map) \cup {key} |-> IF k = key THEN value ELSE map[k]]

\* The transitions compile gathers for a DFA state from its source states
GatherTransitions(n, source_states) ==
    Flatten([i \in 1..Len(source_states) |->
        LET source_transitions == get_transitions_for_state(n, source_states[i])
        IN  [t \in 1..Len(source_transitions) |->
                <<source_transitions[t][1], <<source_transitions[t][2]>>>>]])

\* The targets compile pushes: those not yet a key of known_states
RECURSIVE PushUnknown(_, _, _)
PushUnknown(stack, transits, known) ==
    IF transits = <<>> THEN stack
    ELSE PushUnknown(IF Head(transits)[2] \in DOMAIN known
                     THEN stack ELSE Append(stack, Head(transits)[2]),
                     Tail(transits), known)

\* SymbolRangeDfaBuilder::new
NewBuilder == [states |-> <<>>, transitions |-> <<>>, accept |-> <<>>]

\* SymbolRangeDfaBuilder::start_state
builder_start_state(b) ==
    [b EXCEPT !.states = Append(@, Len(b.transitions)), !.accept = Append(@, None)]

\* SymbolRangeDfaBuilder::transition
builder_transition(b, symbol, target_state) ==
    [b EXCEPT !.transitions = Append(@, <<symbol, target_state>>)]

\* SymbolRangeDfaBuilder::accept: Vec::pop on an empty vector does nothing
builder_accept(b, symbol) ==
    [b EXCEPT !.accept = Append(IF @ = <<>> THEN @ ELSE Front(@), symbol)]

\* SymbolRangeDfaBuilder::build
builder_build(b) == [b EXCEPT !.states = Append(@, Len(b.transitions))]

\* compile: the transition calls for one DFA state
RECURSIVE EmitTransitions(_, _, _)
EmitTransitions(b, transits, known) ==
    IF transits = <<>> THEN b
    ELSE EmitTransitions(builder_transition(b, Head(transits)[1], known[Head(transits)[2]]),
                         Tail(transits), known)

\* compile: the builder calls for every DFA state, in order
RECURSIVE EmitStates(_, _, _)
EmitStates(b, sts, known) ==
    IF sts = <<>> THEN b
    ELSE LET started  == builder_start_state(b)
             symbol   == output_symbol(Head(sts).output)
             accepted == IF symbol # None THEN builder_accept(started, symbol) ELSE started
         IN  EmitStates(EmitTransitions(accepted, Head(sts).transitions, known), Tail(sts), known)

\* SymbolRangeDfa::count_states
dfa_count_states(d) == Len(d.states) - 1

\* SymbolRangeDfa::get_transitions_for_state
dfa_get_transitions_for_state(d, state) ==
    SubSeq(d.transitions, d.states[state + 1] + 1, d.states[state + 2])

\* Option::None for the most recent accepting state of a SymbolRangeState
NoAccept == <<None, None>>

\* start recording no accept, whatever state 0 is
dfa_startNeverAccepting(d) ==
    [kind |-> "More", state |-> 0, count |-> 0, accept |-> NoAccept]

\* SymbolRangeDfa::start
dfa_start(d) ==
    [kind   |-> "More",
     state  |-> 0,
     count  |-> 0,
     accept |-> IF d.accept[1] # None THEN <<0, d.accept[1]>> ELSE NoAccept]

\* SymbolRangeState::finish
dfa_finish(st) ==
    IF st.accept # NoAccept
    THEN [kind |-> "Accept", state |-> st.state, count |-> st.count, accept |-> st.accept]
    ELSE [kind |-> "Reject", state |-> st.state, count |-> st.count, accept |-> st.accept]

\* The scan of SymbolRangeState::next: the first transition of the state, from
\* transit on, whose range includes the symbol (None when there is none)
RECURSIVE FirstIncluding(_, _, _, _)
FirstIncluding(d, transit, end_transition, symbol) ==
    IF transit >= end_transition THEN None
    ELSE IF Includes(d.transitions[transit + 1][1], symbol) THEN transit
         ELSE FirstIncluding(d, transit + 1, end_transition, symbol)

\* next keeping no earlier accepting state when the new state does not accept
dfa_nextForgetsAccept(d, st, symbol) ==
    LET start_transition == d.states[st.state + 1]
        end_transition   == d.states[st.state + 2]
        transit          == FirstIncluding(d, start_transition, end_transition, symbol)
    IN  IF transit # None
        THEN LET new_state == d.transitions[transit + 1][2]
                 new_count == st.count + 1
             IN  [kind   |-> "More",
                  state  |-> new_state,
                  count  |-> new_count,
                  accept |-> IF d.accept[new_state + 1] # None
                             THEN <<new_count, d.accept[new_state + 1]>>
                             ELSE NoAccept]
        ELSE dfa_finish(st)

\* SymbolRangeState::next counting two symbols for the one it read
dfa_nextCountsTwice(d, st, symbol) ==
    LET start_transition == d.states[st.state + 1]
        end_transition   == d.states[st.state + 2]
        transit          == FirstIncluding(d, start_transition, end_transition, symbol)
    IN  IF transit # None
        THEN LET new_state == d.transitions[transit + 1][2]
                 new_count == st.count + 2
             IN  [kind   |-> "More",
                  state  |-> new_state,
                  count  |-> new_count,
                  accept |-> IF d.accept[new_state + 1] # None
                             THEN <<new_count, d.accept[new_state + 1]>>
                             ELSE st.accept]
        ELSE dfa_finish(st)

\* SymbolRangeState::next
dfa_next(d, st, symbol) ==
    LET start_transition == d.states[st.state + 1]
        end_transition   == d.states[st.state + 2]
        transit          == FirstIncluding(d, start_transition, end_transition, symbol)
    IN  IF transit # None
        THEN LET new_state == d.transitions[transit + 1][2]
                 new_count == st.count + 1
             IN  [kind   |-> "More",
                  state  |-> new_state,
                  count  |-> new_count,
                  accept |-> IF d.accept[new_state + 1] # None
                             THEN <<new_count, d.accept[new_state + 1]>>
                             ELSE st.accept]
        ELSE dfa_finish(st)

\* ------------------------------------------------------------------------
\* regular_pattern.rs
\* ------------------------------------------------------------------------

\* Pattern::Match
Match(symbols) ==
    [type |-> "Match", symbols |-> symbols, count |-> 0, range |-> <<0, 0>>, patterns |-> <<>>]

\* Pattern::MatchRange
MatchRange(first, last) ==
    [type |-> "MatchRange", symbols |-> <<first, last>>, count |-> 0, range |-> <<0, 0>>,
     patterns |-> <<>>]

\* Pattern::RepeatInfinite
RepeatInfinite(count, pattern) ==
    [type |-> "RepeatInfinite", symbols |-> <<>>, count |-> count, range |-> <<0, 0>>,
     patterns |-> <<pattern>>]

\* Pattern::Repeat, range being start..end
Repeat(range, pattern) ==
    [type |-> "Repeat", symbols |-> <<>>, count |-> 0, range |-> range, patterns |-> <<pattern>>]

\* Pattern::MatchAll
MatchAll(pats) ==
    [type |-> "MatchAll", symbols |-> <<>>, count |-> 0, range |-> <<0, 0>>, patterns |-> pats]

\* Pattern::MatchAny
MatchAny(pats) ==
    [type |-> "MatchAny", symbols |-> <<>>, count |-> 0, range |-> <<0, 0>>, patterns |-> pats]

RECURSIVE compile(_, _, _)
RECURSIVE CompileMatch(_, _, _)
RECURSIVE CompileRepeatInfinite(_, _, _, _, _, _)
RECURSIVE CompileMatchAll(_, _, _)
RECURSIVE CompileRepeat(_, _, _, _, _, _)
RECURSIVE CompileMatchAny(_, _, _, _)

\* Pattern::compile, Match: a transition on each symbol in turn
CompileMatch(symbols, state_machine, current_state) ==
    IF symbols = <<>> THEN [ndfa |-> state_machine, state |-> current_state]
    ELSE LET next_state == ndfa_count_states(state_machine)
         IN  CompileMatch(Tail(symbols),
                          add_transition(state_machine, current_state,
                                         NewRange(Head(symbols), Head(symbols)), next_state),
                          next_state)

\* RepeatInfinite whose last repetition is not turned into a loop
CompileRepeatInfiniteNoLoop(count, pattern, state_machine, repeat, repeat_state, target_state) ==
    IF repeat >= count + 2 THEN [ndfa |-> state_machine, state |-> target_state]
    ELSE LET joined == IF repeat >= count
                       THEN join_states(state_machine, repeat_state, target_state)
                       ELSE state_machine
             body   == compile(pattern, joined, repeat_state)
         IN  CompileRepeatInfinite(count, pattern, body.ndfa, repeat + 1, body.state,
                                   target_state)

\* Pattern::compile, RepeatInfinite: the loop over 0..(count+2), from repeat on
CompileRepeatInfinite(count, pattern, state_machine, repeat, repeat_state, target_state) ==
    IF repeat >= count + 2 THEN [ndfa |-> state_machine, state |-> target_state]
    ELSE LET joined        == IF repeat >= count
                              THEN join_states(state_machine, repeat_state, target_state)
                              ELSE state_machine
             initial_state == repeat_state
             body          == compile(pattern, joined, repeat_state)
             looped        == IF repeat = count + 1
                              THEN join_states(body.ndfa, body.state, initial_state)
                              ELSE body.ndfa
         IN  CompileRepeatInfinite(count, pattern, looped, repeat + 1, body.state, target_state)

\* Repeat joining the state after the last repetition to the target as well
CompileRepeatJoinsLast(range, pattern, state_machine, repeat, repeat_state, target_state) ==
    IF repeat >= range[2]
    THEN [ndfa  |-> IF repeat >= range[1]
                    THEN join_states(state_machine, repeat_state, target_state)
                    ELSE state_machine,
          state |-> target_state]
    ELSE LET joined == IF repeat >= range[1]
                       THEN join_states(state_machine, repeat_state, target_state)
                       ELSE state_machine
             body   == compile(pattern, joined, repeat_state)
         IN  CompileRepeat(range, pattern, body.ndfa, repeat + 1, body.state, target_state)

\* Pattern::compile, Repeat: the loop over 0..(range.end), from repeat on
CompileRepeat(range, pattern, state_machine, repeat, repeat_state, target_state) ==
    IF repeat >= range[2] THEN [ndfa |-> state_machine, state |-> target_state]
    ELSE LET joined == IF repeat >= range[1]
                       THEN join_states(state_machine, repeat_state, target_state)
                       ELSE state_machine
             body   == compile(pattern, joined, repeat_state)
         IN  CompileRepeat(range, pattern, body.ndfa, repeat + 1, body.state, target_state)

\* MatchAny joining only the final state of the last pattern to the target
CompileMatchAnyJoinsLast(pats, state_machine, start_state, target_state) ==
    IF pats = <<>> THEN [ndfa |-> state_machine, state |-> target_state]
    ELSE LET alternative == compile(Head(pats), state_machine, start_state)
         IN  CompileMatchAny(Tail(pats),
                             IF Tail(pats) = <<>>
                             THEN join_states(alternative.ndfa, alternative.state, target_state)
                             ELSE alternative.ndfa,
                             start_state, target_state)

\* Pattern::compile, MatchAny: each pattern from the start state, its final
\* state joined to the target
CompileMatchAny(pats, state_machine, start_state, target_state) ==
    IF pats = <<>> THEN [ndfa |-> state_machine, state |-> target_state]
    ELSE LET alternative == compile(Head(pats), state_machine, start_state)
         IN  CompileMatchAny(Tail(pats),
                             join_states(alternative.ndfa, alternative.state, target_state),
                             start_state, target_state)

\* Pattern::compile, MatchAll: each pattern in turn
CompileMatchAll(pats, state_machine, current_state) ==
    IF pats = <<>> THEN [ndfa |-> state_machine, state |-> current_state]
    ELSE LET next == compile(Head(pats), state_machine, current_state)
         IN  CompileMatchAll(Tail(pats), next.ndfa, next.state)

\* Pattern::compile: the state machine with the pattern on it, and the state
\* the pattern ends in
compile(pattern, state_machine, start_state) ==
    IF pattern.type = "Match"
    THEN CompileMatch(pattern.symbols, state_machine, start_state)
    ELSE IF pattern.type = "MatchRange"
    THEN LET next_state == ndfa_count_states(state_machine)
         IN  [ndfa  |-> add_transition(state_machine, start_state,
                                       NewRange(pattern.symbols[1], pattern.symbols[2]),
                                       next_state),
              state |-> next_state]
    ELSE IF pattern.type = "RepeatInfinite"
    THEN LET target_state == ndfa_count_states(state_machine)
         IN  CompileRepeatInfinite(pattern.count, pattern.patterns[1],
                                   create_state(state_machine, target_state),
                                   0, start_state, target_state)
    ELSE IF pattern.type = "Repeat"
    THEN LET target_state == ndfa_count_states(state_machine)
         IN  CompileRepeat(pattern.range, pattern.patterns[1],
                           create_state(state_machine, target_state),
                           0, start_state, target_state)
    ELSE IF pattern.type = "MatchAny"
    THEN LET target_state == ndfa_count_states(state_machine)
         IN  CompileMatchAny(pattern.patterns, create_state(state_machine, target_state),
                             start_state, target_state)
    ELSE CompileMatchAll(pattern.patterns, state_machine, start_state)

\* TokenMatcher::to_ndfa: every pattern compiled from state 0, its end state
\* given its output symbol
RECURSIVE CompilePatterns(_, _)
CompilePatterns(pats, n) ==
    IF pats = <<>> THEN n
    ELSE LET end == compile(Head(pats)[1], n, 0)
         IN  CompilePatterns(Tail(pats), set_output_symbol(end.ndfa, end.state, Head(pats)[2]))

\* The symbols 'a' and 'b'
SymA == 0
SymB == 1

\* The symbols 'c' and 'd', and after them in their order 'x' and 'y'
SymC == 2
SymD == 3
SymX == SymD + 1
SymY == SymX + 1

\* exactly("a").repeat_forever(1).append("b")
APlusB == MatchAll(<<RepeatInfinite(1, Match(<<SymA>>)), Match(<<SymB>>)>>)

\* exactly("a").append(exactly("b").repeat_forever(1))
ABPlus == MatchAll(<<Match(<<SymA>>), RepeatInfinite(1, Match(<<SymB>>))>>)

\* The patterns a token matcher is given
TokenPatterns == {APlusB, ABPlus}

\* The characters of the number streams in their order: ' ', then the digits
\* '0' to '4', then '9'
SymSpace == 0
SymDigit0 == 1
SymDigit1 == 2
SymDigit2 == 3
SymDigit3 == 4
SymDigit4 == 5
SymDigit9 == 6

\* MatchRange('0', '9').repeat_forever(1) and .repeat_forever(0)
DigitsPlus == RepeatInfinite(1, MatchRange(SymDigit0, SymDigit9))
DigitsStar == RepeatInfinite(0, MatchRange(SymDigit0, SymDigit9))

\* exactly(" ").repeat_forever(1) and " ".repeat_forever(0)
SpacesPlus == RepeatInfinite(1, Match(<<SymSpace>>))
SpacesStar == RepeatInfinite(0, Match(<<SymSpace>>))

\* The patterns of a token matcher for numbers
NumberPatterns == {DigitsPlus, SpacesPlus, DigitsStar, SpacesStar}

\* The input "12 42 13"
NumberInput ==
    <<SymDigit1, SymDigit2, SymSpace, SymDigit4, SymDigit2, SymSpace, SymDigit1, SymDigit3>>

\* SymbolRangeState::next indexes accept with the target of the transition it
\* takes: a target that is no state of the DFA is an index out of bounds
NextPanics(d, st, symbol) ==
    LET transit == FirstIncluding(d, d.states[st.state + 1], d.states[st.state + 2], symbol)
    IN  transit # None /\ d.transitions[transit + 1][2] >= Len(d.accept)

\* SymbolReader::next_symbol on a reader over a sequence of symbols
reader_next_symbol(r) ==
    IF r.pos < Len(r.symbols)
    THEN [symbol |-> r.symbols[r.pos + 1], reader |-> [r EXCEPT !.pos = @ + 1]]
    ELSE [symbol |-> None, reader |-> r]

\* ------------------------------------------------------------------------
\* tape.rs
\* ------------------------------------------------------------------------

\* The length of the buffer of a new tape
TapeInitialSize == 4

\* Tape::new over a reader of the symbols; source_position is the absolute
\* position of the next symbol the tape returns, asked the number of
\* next_symbol calls the tape has made on read_from
NewTape(symbols) ==
    [read_from          |-> [symbols |-> symbols, pos |-> 0],
     asked              |-> 0,
     buffer             |-> [i \in 1..TapeInitialSize |-> None],
     read_index         |-> 0,
     last_symbol_index  |-> 0,
     first_symbol_index |-> 0,
     end_of_reader      |-> FALSE,
     source_position    |-> 0]

\* Tape::get_source_position
tape_get_source_position(t) == t.source_position

\* Tape::at_end_of_reader: the reader has returned None
tape_at_end_of_reader(t) == t.end_of_reader

\* The source position once next_symbol has returned: one further for a symbol
source_position_after_next(t, symbol) ==
    IF symbol # None THEN t.source_position + 1 ELSE t.source_position

\* The source position once rewind has moved back
source_position_after_rewind(t, num_symbols) == t.source_position - num_symbols

\* Tape::resize: the loop copying the occupied symbols
RECURSIVE ResizeCopy(_, _, _, _)
ResizeCopy(t, copy_index, new_buffer, new_read_index) ==
    IF copy_index = t.last_symbol_index
    THEN [buffer |-> new_buffer, read_index |-> new_read_index]
    ELSE LET pushed == Append(new_buffer, t.buffer[copy_index + 1])
             next   == IF copy_index + 1 >= Len(t.buffer) THEN 0 ELSE copy_index + 1
         IN  ResizeCopy(t, next, pushed,
                        IF next = t.read_index THEN Len(pushed) ELSE new_read_index)

\* Tape::resize leaving read_index where it was in the old buffer
resized_tapeKeepsReadIndex(t, new_size, copied) ==
    [t EXCEPT !.buffer             = [i \in 1..new_size |->
                                         IF i <= Len(copied.buffer)
                                         THEN copied.buffer[i] ELSE None],
              !.first_symbol_index = 0,
              !.last_symbol_index  = Len(copied.buffer)]

\* Tape::resize: the tape once the occupied symbols are copied
resized_tape(t, new_size, copied) ==
    [t EXCEPT !.buffer             = [i \in 1..new_size |->
                                         IF i <= Len(copied.buffer)
                                         THEN copied.buffer[i] ELSE None],
              !.first_symbol_index = 0,
              !.last_symbol_index  = Len(copied.buffer),
              !.read_index         = copied.read_index]

\* Tape::resize
tape_resize(t) ==
    resized_tape(t, Len(t.buffer) * 2, ResizeCopy(t, t.first_symbol_index, <<>>, 0))

\* Tape::cut
tape_cut(t) == [t EXCEPT !.first_symbol_index = t.read_index]

\* Tape::buffer_size
tape_buffer_size(t) ==
    IF t.first_symbol_index > t.last_symbol_index
    THEN (t.last_symbol_index + Len(t.buffer)) - t.first_symbol_index
    ELSE t.last_symbol_index - t.first_symbol_index

\* Tape::rewind panics when asked for more symbols than the buffer holds
RewindPanics(t, num_symbols) == num_symbols > tape_buffer_size(t)

\* Tape::rewind
tape_rewind(t, num_symbols) ==
    LET moved == (t.read_index + Len(t.buffer)) - num_symbols
    IN  [t EXCEPT !.read_index      = IF moved >= Len(t.buffer)
                                      THEN moved - Len(t.buffer) ELSE moved,
                  !.source_position = source_position_after_rewind(t, num_symbols)]

\* Tape::next_symbol: the symbol is written at last_symbol_index, which advances
store_at_last(sized, symbol) ==
    [sized EXCEPT !.buffer[sized.last_symbol_index + 1] = symbol,
                  !.last_symbol_index =
                      IF sized.last_symbol_index + 1 >= Len(sized.buffer)
                      THEN 0 ELSE sized.last_symbol_index + 1]

\* next_symbol resizing only where the last index is right below the first
StoreSymbolNoWrap(t, symbol) ==
    store_at_last(IF t.last_symbol_index + 1 = t.first_symbol_index
                  THEN tape_resize(t) ELSE t,
                  symbol)

\* Tape::next_symbol, the branch that stores a symbol read from the source
StoreSymbol(t, symbol) ==
    store_at_last(IF (t.last_symbol_index + 1) % Len(t.buffer) = t.first_symbol_index
                  THEN tape_resize(t) ELSE t,
                  symbol)

\* Tape::next_symbol, the end: the symbol at the read position
ReadBuffer(t) ==
    LET symbol == t.buffer[t.read_index + 1]
    IN  [symbol |-> symbol,
         tape   |-> [t EXCEPT !.read_index      = IF t.read_index + 1 >= Len(t.buffer)
                                                  THEN 0 ELSE t.read_index + 1,
                              !.source_position = source_position_after_next(t, symbol)]]

\* Tape::next_symbol at the end of the buffer: read_from is asked for a symbol
fill_buffer(t) ==
    LET read == reader_next_symbol(t.read_from)
    IN  IF read.symbol = None
        THEN [symbol |-> None, tape |-> [t EXCEPT !.end_of_reader = TRUE, !.asked = @ + 1]]
        ELSE ReadBuffer(StoreSymbol([t EXCEPT !.read_from = read.reader, !.asked = @ + 1],
                                    read.symbol))

\* next_symbol asking read_from whenever the buffer is read to its end
tape_next_symbolAsksAgain(t) ==
    IF t.read_index = t.last_symbol_index THEN fill_buffer(t) ELSE ReadBuffer(t)

\* Tape::next_symbol: the symbol returned (None at the end) and the tape after
tape_next_symbol(t) ==
    IF t.read_index = t.last_symbol_index
    THEN IF t.end_of_reader
         THEN [symbol |-> None, tape |-> t]
         ELSE fill_buffer(t)
    ELSE ReadBuffer(t)

\* ------------------------------------------------------------------------
\* tokenizer.rs: Tokenizer
\* ------------------------------------------------------------------------

\* match_pattern reading from a tape: the final MatchAction and the tape after;
\* panic when a transition leads to no state of the DFA
RECURSIVE match_pattern(_, _, _)

\* match_pattern finishing on the first symbol it reads
match_symbolStopsEarly(d, state, read) ==
    IF read.symbol = None
    THEN match_pattern(d, dfa_finish(state), read.tape)
    ELSE IF NextPanics(d, state, read.symbol)
         THEN [final |-> state, tape |-> read.tape, panic |-> TRUE]
         ELSE match_pattern(d, dfa_finish(dfa_next(d, state, read.symbol)), read.tape)

\* match_pattern: the body of the loop, for what the tape returned
match_symbol(d, state, read) ==
    IF read.symbol = None
    THEN match_pattern(d, dfa_finish(state), read.tape)
    ELSE IF NextPanics(d, state, read.symbol)
         THEN [final |-> state, tape |-> read.tape, panic |-> TRUE]
         ELSE match_pattern(d, dfa_next(d, state, read.symbol), read.tape)

match_pattern(d, state, t) ==
    IF state.kind # "More" THEN [final |-> state, tape |-> t, panic |-> FALSE]
    ELSE match_symbol(d, state, tape_next_symbol(t))

\* next_token rewinding to the start of the match it accepted
accept_rewindToStart(start_pos, end_pos, length) == end_pos - start_pos

\* next_token: how far the tape is rewound after a match of the length is accepted
accept_rewind(start_pos, end_pos, length) == end_pos - start_pos - length

\* Option::None for the token next_token returns
NoToken == [start |-> None, end |-> None, output |-> None]

\* next_token taking an accepted match of any length for a token
is_tokenAnyLength(final) == final.kind = "Accept"

\* next_token: the match is Accept(length, _) with length > 0
is_token(final) == final.kind = "Accept" /\ final.accept[1] > 0

\* next_token leaving the tape where the match stopped when there is no token
rewind_and_returnKeepsOvershoot(start_pos, after, final, accepted, back) ==
    IF back < 0 \/ RewindPanics(after, back)
    THEN [token |-> NoToken, tape |-> after, panic |-> TRUE]
    ELSE IF accepted
    THEN [token |-> [start  |-> start_pos,
                     end    |-> start_pos + final.accept[1],
                     output |-> final.accept[2]],
          tape  |-> tape_cut(tape_rewind(after, back)),
          panic |-> FALSE]
    ELSE [token |-> NoToken, tape |-> after, panic |-> FALSE]

\* next_token: the rewind of the arm taken, then the token returned; panic when
\* the subtraction underflows or the rewind panics
rewind_and_return(start_pos, after, final, accepted, back) ==
    IF back < 0 \/ RewindPanics(after, back)
    THEN [token |-> NoToken, tape |-> after, panic |-> TRUE]
    ELSE IF accepted
    THEN [token |-> [start  |-> start_pos,
                     end    |-> start_pos + final.accept[1],
                     output |-> final.accept[2]],
          tape  |-> tape_cut(tape_rewind(after, back)),
          panic |-> FALSE]
    ELSE [token |-> NoToken, tape |-> tape_rewind(after, back), panic |-> FALSE]

\* next_token: the arms of the match on match_result
match_arms(start_pos, match_result, end_pos) ==
    IF match_result.panic
    THEN [token |-> NoToken, tape |-> match_result.tape, panic |-> TRUE]
    ELSE rewind_and_return(start_pos, match_result.tape, match_result.final,
                           is_token(match_result.final),
                           IF is_token(match_result.final)
                           THEN accept_rewind(start_pos, end_pos, match_result.final.accept[1])
                           ELSE end_pos - start_pos)

\* next_token once match_pattern has returned
after_match(start_pos, match_result) ==
    match_arms(start_pos, match_result, tape_get_source_position(match_result.tape))

\* Tokenizer::next_token: the token returned (NoToken for None) and the tape
\* after; panic when the match or the rewind panics
next_token(d, t) ==
    after_match(tape_get_source_position(t), match_pattern(d, dfa_start(d), t))

\* ------------------------------------------------------------------------
\* State
\* ------------------------------------------------------------------------

VARIABLES
    pc,          \* position of the program
    added,       \* the ranges handed to add_range so far
    ranges,      \* SymbolMap.ranges of the map being filled
    to_process,  \* to_non_overlapping_map: stack of pending ranges
    result,      \* to_non_overlapping_map: ranges emitted so far
    ndfa,        \* the Ndfa
    calls,       \* builder calls made so far, by kind
    compiler,    \* DfaCompiler::compile: states, known_states, to_process, and the DFA built
    reader,      \* the symbol reader a match runs on: its symbols and read position
    current_state, \* match_pattern: the MatchAction the loop holds
    patterns,    \* TokenMatcher: the patterns added, each with its output symbol
    tape,        \* Tokenizer: the tape over the source reader
    tokens,      \* the tokens next_token has returned, in order
    pos,         \* from_tokenizer: where the next token of the annotated stream begins
    returned,    \* the last call made on an annotated or tree stream, and what it returned
    tree,        \* TreeStream: the base tokens and the annotations above them
    second,      \* a second Tokenizer on the same DFA: its tape and the tokens it returned
    scripts,     \* the calls made on each of the two tokenizers, in order
    split        \* SplitSymbolReaderBuffer: positions and buffer, and what each reader has returned

vars == <<pc, added, ranges, to_process, result, ndfa, calls, compiler, reader, current_state,
          patterns, tape, tokens, pos, returned, tree,
          second, scripts, split>>

\* No call has returned
NoReturn == [call |-> "none", arguments |-> <<>>, value |-> <<>>]

\* No second tokenizer is made
NoSecond == [tape |-> NewTape(<<>>), tokens |-> <<>>]

\* No call is made on either tokenizer
NoScripts == <<<<>>, <<>>>>

\* No reader is split
NoSplit == [positions |-> <<0, 0>>, buffer |-> <<>>, pulled |-> <<>>, read |-> <<<<>>, <<>>>>,
            dropped |-> <<FALSE, FALSE>>]

\* No tree stream is made
NoTree == [tokens |-> <<>>, annotations |-> <<>>]

\* A reader with nothing to read
NoReader == [symbols |-> <<>>, pos |-> 0]

\* The MatchAction before any match has run
NoMatch == [kind |-> "Reject", state |-> 0, count |-> 0, accept |-> NoAccept]

\* The compiler before compile is called
NoCompiler == [states |-> <<>>, known_states |-> <<>>, to_process |-> <<>>, dfa |-> NewBuilder]

NoCalls == [transitions |-> 0, joins |-> 0, outputs |-> 0]

\* ------------------------------------------------------------------------
\* The symbol map: add_range, then to_non_overlapping_map
\* ------------------------------------------------------------------------

MapInit ==
    /\ pc = "build"
    /\ added = {}
    /\ ranges = <<>>
    /\ to_process = <<>>
    /\ result = <<>>
    /\ ndfa = NewNdfa
    /\ calls = NoCalls
    /\ compiler = NoCompiler
    /\ reader = NoReader
    /\ current_state = NoMatch
    /\ patterns = <<>>
    /\ tape = NewTape(<<>>)
    /\ tokens = <<>>
    /\ pos = 0
    /\ returned = NoReturn
    /\ tree = NoTree
    /\ second = NoSecond
    /\ scripts = NoScripts
    /\ split = NoSplit

\* SymbolMap::add_range(range)
AddRange(range) ==
    /\ pc = "build"
    /\ Cardinality(added \cup {range}) <= MaxRanges
    /\ added' = added \cup {range}
    /\ ranges' = add_range(ranges, range)
    /\ UNCHANGED <<pc, to_process, result, ndfa, calls, compiler, reader, current_state, patterns, tape, tokens, pos, returned, tree,
                   second, scripts, split>>

\* to_non_overlapping_map: clone and reverse the ranges
NonOverlappingStart ==
    /\ pc = "build"
    /\ to_process' = Reverse(ranges)
    /\ result' = <<>>
    /\ pc' = "loop"
    /\ UNCHANGED <<added, ranges, ndfa, calls, compiler, reader, current_state, patterns, tape, tokens, pos, returned, tree,
                   second, scripts, split>>

\* to_non_overlapping_map: one iteration of the loop.  An overflowing next()
\* or prev() panics in a debug build and wraps in a release build.
NonOverlappingStep ==
    /\ pc = "loop"
    /\ to_process # <<>>
    /\ Len(result) < MaxEmitted
    /\ LET body == LoopBody(to_process, result)
       IN  \/ /\ body.overflow
              /\ pc' = "panic"
              /\ UNCHANGED <<to_process, result, reader, current_state, patterns, tape, tokens, pos, returned, tree,
                             second, scripts, split>>
           \/ /\ to_process' = body.to_process
              /\ result' = body.result
              /\ pc' = "loop"
    /\ UNCHANGED <<added, ranges, ndfa, calls, compiler, reader, current_state, patterns, tape, tokens, pos, returned, tree,
                   second, scripts, split>>

\* to_non_overlapping_map: the stack is empty, the result is returned
NonOverlappingReturn ==
    /\ pc = "loop"
    /\ to_process = <<>>
    /\ pc' = "done"
    /\ UNCHANGED <<added, ranges, to_process, result, ndfa, calls, compiler, reader, current_state, patterns, tape, tokens, pos, returned, tree,
                   second, scripts, split>>

MapNext ==
    \/ \E range \in AllRanges : AddRange(range)
    \/ NonOverlappingStart
    \/ NonOverlappingStep
    \/ NonOverlappingReturn

SpecMap == MapInit /\ [][MapNext]_vars

\* ------------------------------------------------------------------------
\* The NDFA: builder calls, then fix_overlapping_ranges
\* ------------------------------------------------------------------------

NdfaInit ==
    /\ pc = "ndfa"
    /\ added = {}
    /\ ranges = <<>>
    /\ to_process = <<>>
    /\ result = <<>>
    /\ ndfa = NewNdfa
    /\ calls = NoCalls
    /\ compiler = NoCompiler
    /\ reader = NoReader
    /\ current_state = NoMatch
    /\ patterns = <<>>
    /\ tape = NewTape(<<>>)
    /\ tokens = <<>>
    /\ pos = 0
    /\ returned = NoReturn
    /\ tree = NoTree
    /\ second = NoSecond
    /\ scripts = NoScripts
    /\ split = NoSplit

\* Ndfa::add_transition(state, for_symbol, new_state)
AddTransition(state, for_symbol, new_state) ==
    /\ pc = "ndfa"
    /\ calls.transitions < MaxTransitions
    /\ ndfa' = add_transition(ndfa, state, for_symbol, new_state)
    /\ calls' = [calls EXCEPT !.transitions = @ + 1]
    /\ UNCHANGED <<pc, added, ranges, to_process, result, compiler, reader, current_state, patterns, tape, tokens, pos, returned, tree,
                   second, scripts, split>>

\* Ndfa::create_state(state)
CreateState(state) ==
    /\ pc = "ndfa"
    /\ ndfa' = create_state(ndfa, state)
    /\ UNCHANGED <<pc, added, ranges, to_process, result, calls, compiler, reader, current_state, patterns, tape, tokens, pos, returned, tree,
                   second, scripts, split>>

\* Ndfa::set_output_symbol(state, new_output_symbol)
SetOutputSymbol(state, new_output_symbol) ==
    /\ pc = "ndfa"
    /\ calls.outputs < MaxOutputs
    /\ ndfa' = set_output_symbol(ndfa, state, new_output_symbol)
    /\ calls' = [calls EXCEPT !.outputs = @ + 1]
    /\ UNCHANGED <<pc, added, ranges, to_process, result, compiler, reader, current_state, patterns, tape, tokens, pos, returned, tree,
                   second, scripts, split>>

\* Ndfa::join_states(first_state, second_state)
JoinStates(first_state, second_state) ==
    /\ pc = "ndfa"
    /\ calls.joins < MaxJoins
    /\ ndfa' = join_states(ndfa, first_state, second_state)
    /\ calls' = [calls EXCEPT !.joins = @ + 1]
    /\ UNCHANGED <<pc, added, ranges, to_process, result, compiler, reader, current_state, patterns, tape, tokens, pos, returned, tree,
                   second, scripts, split>>

\* Ndfa::fix_overlapping_ranges: gather the symbol map and enter
\* to_non_overlapping_map
FixStart ==
    /\ pc = "ndfa"
    /\ LET all == Flatten(ndfa.transitions)
           map == GatherRanges(all, <<>>)
       IN  /\ added' = { all[i][1] : i \in 1..Len(all) }
           /\ ranges' = map
           /\ to_process' = Reverse(map)
    /\ result' = <<>>
    /\ pc' = "loop"
    /\ UNCHANGED <<ndfa, calls, compiler, reader, current_state, patterns, tape, tokens, pos, returned, tree,
                   second, scripts, split>>

\* Ndfa::fix_overlapping_ranges: to_non_overlapping_map has returned; rewrite
\* the transitions
FixFinish ==
    /\ pc = "done"
    /\ ndfa' = [ndfa EXCEPT !.transitions = FixedTransitions(ndfa.transitions, result)]
    /\ pc' = "fixed"
    /\ UNCHANGED <<added, ranges, to_process, result, calls, compiler, reader, current_state, patterns, tape, tokens, pos, returned, tree,
                   second, scripts, split>>

NdfaNext ==
    \/ \E state \in StateIds, for_symbol \in NdfaRanges, new_state \in StateIds :
           AddTransition(state, for_symbol, new_state)
    \/ \E state \in StateIds : CreateState(state)
    \/ \E state \in StateIds, new_output_symbol \in OutputSymbols :
           SetOutputSymbol(state, new_output_symbol)
    \/ \E first_state \in StateIds, second_state \in StateIds :
           JoinStates(first_state, second_state)
    \/ FixStart
    \/ NonOverlappingStep
    \/ NonOverlappingReturn
    \/ FixFinish

SpecNdfa == NdfaInit /\ [][NdfaNext]_vars

\* ------------------------------------------------------------------------
\* The DFA compiler: builder calls on the NDFA, then DfaCompiler::compile
\* ------------------------------------------------------------------------

\* compile: state zero is known and pending
CompileStart ==
    /\ pc \in {"ndfa", "fixed"}
    /\ compiler' = [states       |-> <<>>,
                    known_states |-> MapInsert(<<>>, <<0>>, 0),
                    to_process   |-> <<<<0>>>>,
                    dfa          |-> NewBuilder]
    /\ pc' = "compile"
    /\ UNCHANGED <<added, ranges, to_process, result, ndfa, calls, reader, current_state, patterns, tape, tokens, pos, returned, tree,
                   second, scripts, split>>

\* compile: one iteration of the loop over to_process.  source_states records
\* the NDFA states the new DFA state stands for.
CompileStep ==
    /\ pc = "compile"
    /\ compiler.to_process # <<>>
    /\ LET state       == Last(compiler.to_process)
           transitions == GatherTransitions(ndfa, state)
           merged      == merge_states(transitions)
           outputs     == [i \in 1..Len(state) |-> output_symbol_for_state(ndfa, state[i])]
       IN  \E found \in [1..Len(state) -> UNION { outputs[i] : i \in 1..Len(state) }] :
               /\ \A i \in 1..Len(state) : found[i] \in outputs[i]
               /\ compiler' =
                      [compiler EXCEPT
                          !.to_process   = PushUnknown(Front(compiler.to_process), merged,
                                                       compiler.known_states),
                          !.known_states = MapInsert(@, state, Len(compiler.states)),
                          !.states       = Append(@,
                              [state_id      |-> Len(compiler.states),
                               transitions   |-> merged,
                               output        |-> SelectSeq(found, LAMBDA o : o # None),
                               source_states |-> state])]
    /\ UNCHANGED <<pc, added, ranges, to_process, result, ndfa, calls, reader, current_state, patterns, tape, tokens, pos, returned, tree,
                   second, scripts, split>>

\* compile: every state is processed; the builder emits the DFA
CompileBuild ==
    /\ pc = "compile"
    /\ compiler.to_process = <<>>
    /\ compiler' = [compiler EXCEPT !.dfa =
                       builder_build(EmitStates(NewBuilder, compiler.states,
                                                compiler.known_states))]
    /\ pc' = "compiled"
    /\ UNCHANGED <<added, ranges, to_process, result, ndfa, calls, reader, current_state, patterns, tape, tokens, pos, returned, tree,
                   second, scripts, split>>

DfaNext ==
    \/ \E state \in StateIds, for_symbol \in NdfaRanges, new_state \in StateIds :
           AddTransition(state, for_symbol, new_state)
    \/ \E state \in StateIds : CreateState(state)
    \/ \E state \in StateIds, new_output_symbol \in OutputSymbols :
           SetOutputSymbol(state, new_output_symbol)
    \/ \E first_state \in StateIds, second_state \in StateIds :
           JoinStates(first_state, second_state)
    \/ CompileStart
    \/ CompileStep
    \/ CompileBuild

SpecDfa == NdfaInit /\ [][DfaNext]_vars

\* ------------------------------------------------------------------------
\* Matching: a DFA put together through SymbolRangeDfaBuilder, then
\* matches_symbol_range on a symbol reader
\* ------------------------------------------------------------------------

\* The symbol streams a match is run on
Streams == UNION { [1..len -> 0..NdfaSymTop] : len \in 0..MaxStream }

\* DfaBuilder::start_state
BuilderStartState ==
    /\ pc = "builder"
    /\ Len(compiler.dfa.states) < MaxDfaStates
    /\ compiler' = [compiler EXCEPT !.dfa = builder_start_state(@)]
    /\ UNCHANGED <<pc, added, ranges, to_process, result, ndfa, calls, reader, current_state, patterns, tape, tokens, pos, returned, tree,
                   second, scripts, split>>

\* DfaBuilder::transition; the builder is only used once a state is started
BuilderTransition(symbol, target_state) ==
    /\ pc = "builder"
    /\ Len(compiler.dfa.states) > 0
    /\ Len(compiler.dfa.transitions) < MaxDfaTransitions
    /\ compiler' = [compiler EXCEPT !.dfa = builder_transition(@, symbol, target_state)]
    /\ UNCHANGED <<pc, added, ranges, to_process, result, ndfa, calls, reader, current_state, patterns, tape, tokens, pos, returned, tree,
                   second, scripts, split>>

\* DfaBuilder::accept
BuilderAccept(symbol) ==
    /\ pc = "builder"
    /\ Len(compiler.dfa.states) > 0
    /\ compiler' = [compiler EXCEPT !.dfa = builder_accept(@, symbol)]
    /\ UNCHANGED <<pc, added, ranges, to_process, result, ndfa, calls, reader, current_state, patterns, tape, tokens, pos, returned, tree,
                   second, scripts, split>>

\* DfaBuilder::build
BuilderBuild ==
    /\ pc = "builder"
    /\ Len(compiler.dfa.states) > 0
    /\ compiler' = [compiler EXCEPT !.dfa = builder_build(@)]
    /\ pc' = "built"
    /\ UNCHANGED <<added, ranges, to_process, result, ndfa, calls, reader, current_state, patterns, tape, tokens, pos, returned, tree,
                   second, scripts, split>>

\* matches_symbol_range: the length of an Accept, otherwise None
matches_symbol_range(final_state) ==
    IF final_state.kind = "Accept" THEN final_state.accept[1] ELSE None

\* matches_symbol_range: match_pattern is entered with dfa.start()
MatchStart(symbols) ==
    /\ pc \in {"built", "compiled"}
    /\ reader' = [symbols |-> symbols, pos |-> 0]
    /\ current_state' = dfa_start(compiler.dfa)
    /\ pc' = "matching"
    /\ UNCHANGED <<added, ranges, to_process, result, ndfa, calls, compiler, patterns, tape, tokens, pos, returned, tree,
                   second, scripts, split>>

\* match_pattern: one iteration of the loop; it is left once the action is not More
MatchStep ==
    /\ pc = "matching"
    /\ current_state.kind = "More"
    /\ LET read == reader_next_symbol(reader)
       IN  /\ reader' = read.reader
           /\ IF read.symbol # None /\ NextPanics(compiler.dfa, current_state, read.symbol)
              THEN /\ pc' = "panic"
                   /\ UNCHANGED current_state
              ELSE /\ current_state' = IF read.symbol # None
                                       THEN dfa_next(compiler.dfa, current_state, read.symbol)
                                       ELSE dfa_finish(current_state)
                   /\ pc' = IF current_state'.kind = "More" THEN "matching" ELSE "matched"
    /\ UNCHANGED <<added, ranges, to_process, result, ndfa, calls, compiler, patterns, tape, tokens, pos, returned, tree,
                   second, scripts, split>>

MatchInit ==
    /\ pc = "builder"
    /\ added = {}
    /\ ranges = <<>>
    /\ to_process = <<>>
    /\ result = <<>>
    /\ ndfa = NewNdfa
    /\ calls = NoCalls
    /\ compiler = NoCompiler
    /\ reader = NoReader
    /\ current_state = NoMatch
    /\ patterns = <<>>
    /\ tape = NewTape(<<>>)
    /\ tokens = <<>>
    /\ pos = 0
    /\ returned = NoReturn
    /\ tree = NoTree
    /\ second = NoSecond
    /\ scripts = NoScripts
    /\ split = NoSplit

MatchNext ==
    \/ BuilderStartState
    \/ \E symbol \in NdfaRanges, target_state \in 0..MaxDfaStates :
           BuilderTransition(symbol, target_state)
    \/ \E symbol \in OutputSymbols : BuilderAccept(symbol)
    \/ BuilderBuild
    \/ \E symbols \in Streams : MatchStart(symbols)
    \/ MatchStep

SpecMatch == MatchInit /\ [][MatchNext]_vars

\* ------------------------------------------------------------------------
\* Token matchers: add_pattern, then prepare_to_match (to_ndfa with its
\* fix_overlapping_ranges, DfaCompiler::build), then match_pattern
\* ------------------------------------------------------------------------

\* The symbol streams a token matcher is run on
TokenStreams == UNION { [1..len -> {SymA, SymB}] : len \in 0..MaxTokenStream }

\* TokenMatcher::add_pattern
AddPattern(pattern, output) ==
    /\ pc = "patterns"
    /\ Len(patterns) < MaxPatterns
    /\ patterns' = Append(patterns, <<pattern, output>>)
    /\ UNCHANGED <<pc, added, ranges, to_process, result, ndfa, calls, compiler, reader,
                   current_state, tape, tokens, pos, returned, tree,
                   second, scripts, split>>

\* TokenMatcher::to_ndfa, up to the point where fix_overlapping_ranges has
\* gathered the symbol map and enters to_non_overlapping_map
ToNdfa ==
    /\ pc = "patterns"
    /\ LET built == CompilePatterns(patterns, NewNdfa)
           all   == Flatten(built.transitions)
           map   == GatherRanges(all, <<>>)
       IN  /\ ndfa' = built
           /\ added' = { all[i][1] : i \in 1..Len(all) }
           /\ ranges' = map
           /\ to_process' = Reverse(map)
    /\ result' = <<>>
    /\ pc' = "loop"
    /\ UNCHANGED <<calls, compiler, reader, current_state, patterns, tape, tokens, pos, returned, tree,
                   second, scripts, split>>

TokenInit ==
    /\ pc = "patterns"
    /\ added = {}
    /\ ranges = <<>>
    /\ to_process = <<>>
    /\ result = <<>>
    /\ ndfa = NewNdfa
    /\ calls = NoCalls
    /\ compiler = NoCompiler
    /\ reader = NoReader
    /\ current_state = NoMatch
    /\ patterns = <<>>
    /\ tape = NewTape(<<>>)
    /\ tokens = <<>>
    /\ pos = 0
    /\ returned = NoReturn
    /\ tree = NoTree
    /\ second = NoSecond
    /\ scripts = NoScripts
    /\ split = NoSplit

TokenNext ==
    \/ \E pattern \in TokenPatterns, output \in OutputSymbols : AddPattern(pattern, output)
    \/ ToNdfa
    \/ NonOverlappingStep
    \/ NonOverlappingReturn
    \/ FixFinish
    \/ CompileStart
    \/ CompileStep
    \/ CompileBuild
    \/ \E symbols \in TokenStreams : MatchStart(symbols)
    \/ MatchStep

SpecTokens == TokenInit /\ [][TokenNext]_vars

\* ------------------------------------------------------------------------
\* Tokenizers: a DFA from the builder, then Tokenizer::new_prepared and any
\* sequence of next_token and skip_input
\* ------------------------------------------------------------------------

\* Tokenizer::new_prepared
TokenizerNew(symbols) ==
    /\ pc \in {"built", "compiled"}
    /\ tape' = NewTape(symbols)
    /\ tokens' = <<>>
    /\ pc' = "tokenizer"
    /\ UNCHANGED <<added, ranges, to_process, result, ndfa, calls, compiler, reader,
                   current_state, patterns, pos, returned, tree,
                   second, scripts, split>>

\* The caller of next_token takes what it returned
Returned(call) ==
    /\ pc' = IF call.panic THEN "panic" ELSE pc
    /\ tape' = call.tape
    /\ tokens' = IF call.token # NoToken THEN Append(tokens, call.token) ELSE tokens

\* Tokenizer::next_token
NextToken ==
    /\ pc = "tokenizer"
    /\ Returned(next_token(compiler.dfa, tape))
    /\ UNCHANGED <<added, ranges, to_process, result, ndfa, calls, compiler, reader,
                   current_state, patterns, pos, returned, tree,
                   second, scripts, split>>

\* Tokenizer::skip_input
SkipInput ==
    /\ pc = "tokenizer"
    /\ tape' = tape_next_symbol(tape).tape
    /\ UNCHANGED <<pc, added, ranges, to_process, result, ndfa, calls, compiler, reader,
                   current_state, patterns, tokens, pos, returned, tree,
                   second, scripts, split>>

\* The ranges on the transitions of a tokenizer's DFA: those over 'a' and 'b'
TokenizerRanges == { r \in NdfaRanges : SymA <= r.lowest /\ r.highest <= SymB }

\* The symbol streams a tokenizer reads
TokenizerStreams == UNION { [1..len -> {SymA, SymB}] : len \in 0..MaxTokenizerStream }

\* The output symbol of a tokenizer's DFA: one kind of token
TokenizerOutputs == {MaxOutputSymbol}

TokenizerNext ==
    \/ BuilderStartState
    \/ \E symbol \in TokenizerRanges, target_state \in 0..MaxDfaStates :
           BuilderTransition(symbol, target_state)
    \/ \E symbol \in TokenizerOutputs : BuilderAccept(symbol)
    \/ BuilderBuild
    \/ \E symbols \in TokenizerStreams : TokenizerNew(symbols)
    \/ NextToken
    \/ SkipInput

SpecTokenizer == MatchInit /\ [][TokenizerNext]_vars

\* ------------------------------------------------------------------------
\* Tokenizers over token matchers for numbers: add_pattern, prepare_to_match,
\* then Tokenizer::new_prepared and any sequence of next_token and skip_input
\* ------------------------------------------------------------------------

\* The symbol streams a tokenizer for numbers reads
NumberStreams ==
    {NumberInput} \cup
    UNION { [1..len -> {SymSpace, SymDigit1, SymDigit2}] : len \in 0..MaxNumberStream }

NumbersNext ==
    \/ \E pattern \in NumberPatterns, output \in OutputSymbols : AddPattern(pattern, output)
    \/ ToNdfa
    \/ NonOverlappingStep
    \/ NonOverlappingReturn
    \/ FixFinish
    \/ CompileStart
    \/ CompileStep
    \/ CompileBuild
    \/ \E symbols \in NumberStreams : TokenizerNew(symbols)
    \/ NextToken
    \/ SkipInput

SpecNumbers == TokenInit /\ [][NumbersNext]_vars

\* ------------------------------------------------------------------------
\* annotated_stream.rs: AnnotatedStream::from_tokenizer
\* ------------------------------------------------------------------------

\* The symbol streams from_tokenizer reads
AnnotatedStreams == UNION { [1..len -> {SymA, SymB}] : len \in 0..MaxAnnotatedStream }

\* from_tokenizer: the tokenizer is created and pos is 0
FromTokenizer(symbols) ==
    /\ pc \in {"built", "compiled"}
    /\ tape' = NewTape(symbols)
    /\ tokens' = <<>>
    /\ pos' = 0
    /\ pc' = "annotate"
    /\ UNCHANGED <<added, ranges, to_process, result, ndfa, calls, compiler, reader,
                   current_state, patterns, returned, tree,
                   second, scripts, split>>

\* from_tokenizer skipping a position without skip_input
loop_bodyKeepsSymbol(call, final_pos) ==
    IF call.panic
    THEN /\ pc' = "panic"
         /\ UNCHANGED <<tape, tokens, pos,
                        second, scripts, split>>
    ELSE IF call.token # NoToken
    THEN /\ tokens' = Append(tokens, [start  |-> pos,
                                      end    |-> final_pos,
                                      output |-> call.token.output])
         /\ pos' = final_pos
         /\ tape' = call.tape
         /\ pc' = pc
    ELSE IF ~tape_at_end_of_reader(call.tape)
    THEN /\ pos' = pos + 1
         /\ tape' = call.tape
         /\ UNCHANGED <<pc, tokens,
                        second, scripts, split>>
    ELSE /\ pc' = "annotated"
         /\ tape' = call.tape
         /\ UNCHANGED <<tokens, pos,
                        second, scripts, split>>

\* from_tokenizer: the body of the loop, for what next_symbol returned and the
\* source position after it
loop_body(call, final_pos) ==
    IF call.panic
    THEN /\ pc' = "panic"
         /\ UNCHANGED <<tape, tokens, pos,
                        second, scripts, split>>
    ELSE IF call.token # NoToken
    THEN /\ tokens' = Append(tokens, [start  |-> pos,
                                      end    |-> final_pos,
                                      output |-> call.token.output])
         /\ pos' = final_pos
         /\ tape' = call.tape
         /\ pc' = pc
    ELSE IF ~tape_at_end_of_reader(call.tape)
    THEN /\ pos' = pos + 1
         /\ tape' = tape_next_symbol(call.tape).tape
         /\ UNCHANGED <<pc, tokens,
                        second, scripts, split>>
    ELSE /\ pc' = "annotated"
         /\ tape' = call.tape
         /\ UNCHANGED <<tokens, pos,
                        second, scripts, split>>

\* from_tokenizer: next_symbol returned, get_source_position is read
read_final_pos(call) == loop_body(call, tape_get_source_position(call.tape))

\* from_tokenizer is in its loop; pos and the number of tokens are capped at
\* the length of the input
InLoop ==
    /\ pc = "annotate"
    /\ pos <= Len(tape.read_from.symbols)
    /\ Len(tokens) <= Len(tape.read_from.symbols)

\* from_tokenizer: one iteration of the loop
FromTokenizerLoop ==
    /\ InLoop
    /\ read_final_pos(next_token(compiler.dfa, tape))
    /\ UNCHANGED <<added, ranges, to_process, result, ndfa, calls, compiler, reader,
                   current_state, patterns, returned, tree,
                   second, scripts, split>>

\* find_token_index finding a token only where one starts
find_token_indexStartOnly(tokenized, position) ==
    LET found == BinarySearchBy([i \in 1..Len(tokenized) |->
                                    order_symbols(tokenized[i].start, position)])
    IN  [ok |-> found.found, index |-> found.pos]

\* AnnotatedStream::find_token_index: Ok(index) or Err(index), 0-based
find_token_index(tokenized, position) ==
    LET found == BinarySearchBy([i \in 1..Len(tokenized) |->
                                    order_symbols(tokenized[i].start, position)])
    IN  IF found.found THEN [ok |-> TRUE, index |-> found.pos]
        ELSE IF found.pos = 0 THEN [ok |-> FALSE, index |-> 0]
        ELSE IF tokenized[found.pos].end > position
             THEN [ok |-> TRUE, index |-> found.pos - 1]
             ELSE [ok |-> FALSE, index |-> found.pos]

\* find_token: the token at the index found, NoToken for None
token_at(tokenized, found_index) ==
    IF found_index.ok THEN tokenized[found_index.index + 1] ELSE NoToken

\* AnnotatedStream::find_token
find_token(tokenized, position) == token_at(tokenized, find_token_index(tokenized, position))

\* read_tokens_in_range stopping only after a token that starts past the end
RECURSIVE final_indexPastEnd(_, _, _)
final_indexPastEnd(tokenized, end_index, search_end) ==
    IF end_index >= Len(tokenized) THEN end_index
    ELSE IF tokenized[end_index + 1].start > search_end THEN end_index
    ELSE final_indexPastEnd(tokenized, end_index + 1, search_end)

\* read_tokens_in_range: the loop finding the final index
RECURSIVE final_index(_, _, _)
final_index(tokenized, end_index, search_end) ==
    IF end_index >= Len(tokenized) THEN end_index
    ELSE IF tokenized[end_index + 1].start >= search_end THEN end_index
    ELSE final_index(tokenized, end_index + 1, search_end)

\* read_tokens_in_range: the slice tokenized[start_index..end_index]
token_range(tokenized, start_index, search_end) ==
    SubSeq(tokenized, start_index + 1, final_index(tokenized, start_index, search_end))

\* AnnotatedStream::read_tokens_in_range(search_start..search_end)
read_tokens_in_range(tokenized, search_start, search_end) ==
    token_range(tokenized, find_token_index(tokenized, search_start).index, search_end)

\* The source positions a caller asks about
Positions == 0..(MaxAnnotatedStream + 1)

\* An Option returned: no element for None, one for Some
Option(token) == IF token = NoToken THEN <<>> ELSE <<token>>

\* find_token on the stream from_tokenizer returned; the calls on a stream
\* leave it as it is, so one call is made on each
FindToken(position) ==
    /\ pc = "annotated"
    /\ returned = NoReturn
    /\ returned' = [call      |-> "find_token",
                    arguments |-> <<position>>,
                    value     |-> Option(find_token(tokens, position))]
    /\ UNCHANGED <<pc, added, ranges, to_process, result, ndfa, calls, compiler, reader,
                   current_state, patterns, tape, tokens, pos, tree,
                   second, scripts, split>>

\* read_tokens_in_range on the stream from_tokenizer returned
ReadTokensInRange(search_start, search_end) ==
    /\ pc = "annotated"
    /\ returned = NoReturn
    /\ search_start < search_end
    /\ returned' = [call      |-> "read_tokens_in_range",
                    arguments |-> <<search_start, search_end>>,
                    value     |-> read_tokens_in_range(tokens, search_start, search_end)]
    /\ UNCHANGED <<pc, added, ranges, to_process, result, ndfa, calls, compiler, reader,
                   current_state, patterns, tape, tokens, pos, tree,
                   second, scripts, split>>

AnnotateNext ==
    \/ BuilderStartState
    \/ \E symbol \in TokenizerRanges, target_state \in 0..MaxDfaStates :
           BuilderTransition(symbol, target_state)
    \/ \E symbol \in TokenizerOutputs : BuilderAccept(symbol)
    \/ BuilderBuild
    \/ \E symbols \in AnnotatedStreams : FromTokenizer(symbols)
    \/ FromTokenizerLoop
    \/ \E position \in Positions : FindToken(position)
    \/ \E search_start \in Positions, search_end \in Positions :
           ReadTokensInRange(search_start, search_end)

SpecAnnotate == MatchInit /\ [][AnnotateNext]_vars

\* The loop of from_tokenizer runs on while it has an iteration to make: weak
\* fairness of FromTokenizerLoop, which is enabled exactly in the states of
\* InLoop (WF_vars(A) is []<>~ENABLED <<A>>_vars \/ []<><<A>>_vars)
FairAnnotate ==
    SpecAnnotate /\ ([]<>(~InLoop) \/ []<><<FromTokenizerLoop>>_vars)

\* ------------------------------------------------------------------------
\* tree_stream.rs
\* ------------------------------------------------------------------------

\* TestToken: Digit, Identifier, Operator, Whitespace, Expression
TokDigit == 0
TokIdentifier == 1
TokOperator == 2
TokExpression == 4

\* create_expression_parser: the patterns added, each giving Expression
ExpressionPatterns ==
    <<Match(<<TokDigit>>), Match(<<TokIdentifier>>),
      Match(<<TokExpression, TokOperator, TokExpression>>)>>

\* create_expression_parser: the matcher once the patterns are added
ExpressionParser ==
    [i \in 1..Len(ExpressionPatterns) |-> <<ExpressionPatterns[i], TokExpression>>]

\* The tokens of "a+1+b"
ScenarioF == <<TokIdentifier, TokOperator, TokDigit, TokOperator, TokIdentifier>>

\* The output symbols of the base tokens of a tree stream
BaseOutputs ==
    {ScenarioF} \cup
    UNION { [1..len -> {TokDigit, TokIdentifier, TokOperator}] : len \in 0..MaxBaseTokens }

\* An AnnotatedStream: its input and its tokens
AnnotatedStream(input, tokenized) == [input |-> input, tokenized |-> tokenized]

\* The stream of base tokens, one token for each symbol of the input
BaseStream(outputs) ==
    AnnotatedStream(outputs, [i \in 1..Len(outputs) |->
                                 [start |-> i - 1, end |-> i, output |-> outputs[i]]])

\* AnnotatedStream::input_len
input_len(stream) == Len(stream.input)

\* AnnotatedStream::input_for_range
input_for_range(stream, start, end) == SubSeq(stream.input, start + 1, end)

\* read_level_tokens: the tokens pushed for a gap, one for each position
gap_tokens(start, from_higher_level) ==
    [i \in 1..Len(from_higher_level) |->
        [start |-> start + i - 1, end |-> start + i, output |-> from_higher_level[i]]]

\* read_level_tokens pushing the tokens of the level alone
with_gapForgotten(stream, pushed, last_end, start) == pushed

\* read_level_tokens: the input symbols are appended if there is a gap
with_gap(stream, pushed, last_end, start) ==
    IF last_end # start
    THEN pushed \o gap_tokens(last_end, input_for_range(stream, last_end, start))
    ELSE pushed

\* read_level_tokens: the loop over the tokens of the level, then the input
\* from the end of the stream
RECURSIVE read_level_loop(_, _, _, _)
read_level_loop(stream, index, last_end, pushed) ==
    IF index > Len(stream.tokenized)
    THEN with_gap(stream, pushed, last_end, input_len(stream))
    ELSE read_level_loop(stream, index + 1, stream.tokenized[index].end,
                         Append(with_gap(stream, pushed, last_end,
                                         stream.tokenized[index].start),
                                stream.tokenized[index]))

\* read_level_tokens reading the base tokens at every depth
read_level_tokensOfBase(t, depth) == t.tokens.tokenized

\* TreeStream::read_level_tokens
read_level_tokens(t, depth) ==
    IF depth = Len(t.annotations)
    THEN t.tokens.tokenized
    ELSE read_level_loop(t.annotations[Len(t.annotations) - depth], 1, 0, <<>>)

\* The output symbols of the tokens
outputs_of(level_tokens) == [i \in 1..Len(level_tokens) |-> level_tokens[i].output]

\* TreeStream::read_level
read_level(t, depth) == outputs_of(read_level_tokens(t, depth))

\* create_expression_parser: the three add_pattern calls
CreateExpressionParser ==
    /\ pc = "patterns"
    /\ patterns = <<>>
    /\ patterns' = ExpressionParser
    /\ UNCHANGED <<pc, added, ranges, to_process, result, ndfa, calls, compiler, reader,
                   current_state, tape, tokens, pos, returned, tree,
                   second, scripts, split>>

\* TreeStream::new_with_tokens
NewWithTokens(outputs) ==
    /\ pc = "compiled"
    /\ tree' = [tokens |-> BaseStream(outputs), annotations |-> <<>>]
    /\ pc' = "tree"
    /\ UNCHANGED <<added, ranges, to_process, result, ndfa, calls, compiler, reader,
                   current_state, patterns, tape, tokens, pos, returned,
                   second, scripts, split>>

\* tokenize_top_level: from_tokenizer is entered with read_level(0)
TokenizeTopLevel ==
    /\ pc = "tree"
    /\ Len(tree.annotations) < MaxLayers
    /\ tape' = NewTape(read_level(tree, 0))
    /\ tokens' = <<>>
    /\ pos' = 0
    /\ pc' = "annotate"
    /\ UNCHANGED <<added, ranges, to_process, result, ndfa, calls, compiler, reader,
                   current_state, patterns, returned, tree,
                   second, scripts, split>>

\* tokenize_top_level: from_tokenizer has returned; the level is pushed and
\* its number of tokens returned
PushLevel ==
    /\ pc = "annotated"
    /\ tree' = [tree EXCEPT !.annotations =
                    Append(@, AnnotatedStream(tape.read_from.symbols, tokens))]
    /\ returned' = [call |-> "tokenize_top_level", arguments |-> <<>>, value |-> <<Len(tokens)>>]
    /\ pc' = "tree"
    /\ UNCHANGED <<added, ranges, to_process, result, ndfa, calls, compiler, reader,
                   current_state, patterns, tape, tokens, pos,
                   second, scripts, split>>

TreeNext ==
    \/ \E i \in 1..Len(ExpressionPatterns) : AddPattern(ExpressionPatterns[i], TokExpression)
    \/ CreateExpressionParser
    \/ ToNdfa
    \/ NonOverlappingStep
    \/ NonOverlappingReturn
    \/ FixFinish
    \/ CompileStart
    \/ CompileStep
    \/ CompileBuild
    \/ \E outputs \in BaseOutputs : NewWithTokens(outputs)
    \/ TokenizeTopLevel
    \/ FromTokenizerLoop
    \/ PushLevel

SpecTree == TokenInit /\ [][TreeNext]_vars

\* ------------------------------------------------------------------------
\* tape.rs: a tape driven by its caller
\* ------------------------------------------------------------------------

\* The symbol streams a tape reads
TapeStreams == UNION { [1..len -> {SymA, SymB}] : len \in 0..MaxTapeStream }

\* Tape::new over each of the streams
TapeInit ==
    /\ pc = "tape"
    /\ added = {}
    /\ ranges = <<>>
    /\ to_process = <<>>
    /\ result = <<>>
    /\ ndfa = NewNdfa
    /\ calls = NoCalls
    /\ compiler = NoCompiler
    /\ reader = NoReader
    /\ current_state = NoMatch
    /\ patterns = <<>>
    /\ \E symbols \in TapeStreams : tape = NewTape(symbols)
    /\ tokens = <<>>
    /\ pos = 0
    /\ returned = NoReturn
    /\ tree = NoTree
    /\ second = NoSecond
    /\ scripts = NoScripts
    /\ split = NoSplit

\* The symbols between the start the buffer retains, first_symbol_index, and
\* the read position
RetainedBeforeRead(t) == (t.read_index + Len(t.buffer) - t.first_symbol_index) % Len(t.buffer)

\* Tape::next_symbol
TapeNextSymbol ==
    /\ pc = "tape"
    /\ tape' = tape_next_symbol(tape).tape
    /\ UNCHANGED <<pc, added, ranges, to_process, result, ndfa, calls, compiler, reader,
                   current_state, patterns, tokens, pos, returned, tree,
                   second, scripts, split>>

\* Tape::cut
TapeCut ==
    /\ pc = "tape"
    /\ tape' = tape_cut(tape)
    /\ UNCHANGED <<pc, added, ranges, to_process, result, ndfa, calls, compiler, reader,
                   current_state, patterns, tokens, pos, returned, tree,
                   second, scripts, split>>

\* Tape::rewind by no more than the symbols retained before the read position
TapeRewind(num_symbols) ==
    /\ pc = "tape"
    /\ num_symbols <= RetainedBeforeRead(tape)
    /\ IF RewindPanics(tape, num_symbols)
       THEN pc' = "panic" /\ tape' = tape
       ELSE pc' = pc /\ tape' = tape_rewind(tape, num_symbols)
    /\ UNCHANGED <<added, ranges, to_process, result, ndfa, calls, compiler, reader,
                   current_state, patterns, tokens, pos, returned, tree,
                   second, scripts, split>>

\* Tape::rewind by more than that: the panic, or the tape rewound before its
\* retained start
TapeRewindTooFar(num_symbols) ==
    /\ pc = "tape"
    /\ num_symbols > RetainedBeforeRead(tape)
    /\ IF RewindPanics(tape, num_symbols)
       THEN pc' = "panic" /\ tape' = tape
       ELSE pc' = "strayed" /\ tape' = tape_rewind(tape, num_symbols)
    /\ UNCHANGED <<added, ranges, to_process, result, ndfa, calls, compiler, reader,
                   current_state, patterns, tokens, pos, returned, tree,
                   second, scripts, split>>

TapeNext ==
    \/ TapeNextSymbol
    \/ TapeCut
    \/ \E num_symbols \in 0..MaxRewind : TapeRewind(num_symbols)
    \/ \E num_symbols \in 0..MaxRewind : TapeRewindTooFar(num_symbols)

SpecTape == TapeInit /\ [][TapeNext]_vars


\* ------------------------------------------------------------------------
\* Patterns: Pattern::prepare_to_match (to_ndfa(true) with its
\* fix_overlapping_ranges, DfaCompiler::build), then matches_prepared
\* ------------------------------------------------------------------------

\* The output symbol true
OutputTrue == MaxOutputSymbol

\* s repeated k times
RECURSIVE Power(_, _)
Power(s, k) == IF k = 0 THEN <<>> ELSE s \o Power(s, k - 1)

\* The literals "a", "ab" and "abc"
LiteralBodies == {<<SymA>>, <<SymA, SymB>>, <<SymA, SymB, SymC>>}

\* literal.repeat(a..b)
RepeatPatterns ==
    { Repeat(<<a, b>>, Match(p)) : a \in 0..MaxRepeat, b \in 0..MaxRepeat, p \in LiteralBodies }

\* literal.repeat_forever(m)
RepeatForeverPatterns ==
    { RepeatInfinite(m, Match(p)) : m \in 0..(MaxRepeat - 1), p \in LiteralBodies }

\* MatchRange('a', 'c').append("a") and MatchRange('b', 'd').append("b")
RangeAThenA == MatchAll(<<MatchRange(SymA, SymC), Match(<<SymA>>)>>)
RangeBThenB == MatchAll(<<MatchRange(SymB, SymD), Match(<<SymB>>)>>)

\* The patterns alternations are made of
Alternatives ==
    {RangeAThenA, RangeBThenB, Match(<<SymA>>), Match(<<SymA, SymB>>),
     MatchRange(SymA, SymB), RepeatInfinite(1, Match(<<SymB>>))}

\* first.or(second), and further .or(...)
AnyPatterns ==
    { MatchAny(alts) : alts \in UNION { [1..k -> Alternatives] : k \in 2..MaxAlternatives } }

\* The patterns that are prepared
PreparedPatterns == RepeatPatterns \cup RepeatForeverPatterns \cup AnyPatterns

\* The symbol streams a prepared pattern is run on: the short streams of 'a'
\* and 'b', the shorter ones of 'a' to 'd', and the repetitions of a literal,
\* alone and followed by "xy"
PatternStreams ==
    UNION { [1..len -> {SymA, SymB}] : len \in 0..MaxPatternStream }
    \cup UNION { [1..len -> SymA..SymD] : len \in 0..(MaxPatternStream - 2) }
    \cup { Power(p, k) \o tail :
               p \in LiteralBodies, k \in 0..(MaxRepeat + 1), tail \in {<<>>, <<SymX, SymY>>} }

\* Pattern::to_ndfa before fix_overlapping_ranges: the pattern compiled from
\* state 0, its end state given the output symbol
pattern_to_ndfa(pattern, output) ==
    LET end == compile(pattern, NewNdfa, 0)
    IN  set_output_symbol(end.ndfa, end.state, output)

\* Pattern::prepare_to_match: to_ndfa(true), up to the point where
\* fix_overlapping_ranges has gathered the symbol map and enters
\* to_non_overlapping_map
PrepareToMatch(pattern) ==
    /\ pc = "patterns"
    /\ LET built == pattern_to_ndfa(pattern, OutputTrue)
           all   == Flatten(built.transitions)
           map   == GatherRanges(all, <<>>)
       IN  /\ ndfa' = built
           /\ added' = { all[i][1] : i \in 1..Len(all) }
           /\ ranges' = map
           /\ to_process' = Reverse(map)
    /\ patterns' = <<<<pattern, OutputTrue>>>>
    /\ result' = <<>>
    /\ pc' = "loop"
    /\ UNCHANGED <<calls, compiler, reader, current_state, tape, tokens, pos, returned, tree,
                   second, scripts, split>>

PatternNext ==
    \/ \E pattern \in PreparedPatterns : PrepareToMatch(pattern)
    \/ NonOverlappingStep
    \/ NonOverlappingReturn
    \/ FixFinish
    \/ CompileStart
    \/ CompileStep
    \/ CompileBuild
    \/ \E symbols \in PatternStreams : MatchStart(symbols)
    \/ MatchStep

SpecPatterns == TokenInit /\ [][PatternNext]_vars


\* ------------------------------------------------------------------------
\* The NDFA read back: add_transition and join_states in any order, then
\* get_transitions_for_state
\* ------------------------------------------------------------------------

\* The states and ranges of the NDFAs that are read back
JoinStateIds == 0..MaxJoinState
JoinRanges == { r \in NdfaRanges : r.lowest = r.highest }

\* StateMachine::get_transitions_for_state, called on the NDFA as built so far
GetTransitionsForState(state) ==
    /\ pc = "ndfa"
    /\ returned' = [call      |-> "get_transitions_for_state",
                    arguments |-> <<state>>,
                    value     |-> get_transitions_for_state(ndfa, state)]
    /\ pc' = "read"
    /\ UNCHANGED <<added, ranges, to_process, result, ndfa, calls, compiler, reader,
                   current_state, patterns, tape, tokens, pos, tree,
                   second, scripts, split>>

JoinsNext ==
    \/ \E state \in JoinStateIds, for_symbol \in JoinRanges, new_state \in JoinStateIds :
           AddTransition(state, for_symbol, new_state)
    \/ \E first_state \in JoinStateIds, second_state \in JoinStateIds :
           JoinStates(first_state, second_state)
    \/ \E state \in JoinStateIds : GetTransitionsForState(state)

SpecJoins == NdfaInit /\ [][JoinsNext]_vars


\* ------------------------------------------------------------------------
\* Symbol ranges: SymbolRange::new with the bounds in any order and join,
\* or a symbol map filled and made non-overlapping
\* ------------------------------------------------------------------------

\* SymbolRange::new(lowest, highest), before any range is added to a map
RangeNew(lowest, highest) ==
    /\ pc = "build"
    /\ ranges = <<>>
    /\ returned' = [call      |-> "new",
                    arguments |-> <<lowest, highest>>,
                    value     |-> <<NewRange(lowest, highest)>>]
    /\ pc' = "made"
    /\ UNCHANGED <<added, ranges, to_process, result, ndfa, calls, compiler, reader,
                   current_state, patterns, tape, tokens, pos, tree,
                   second, scripts, split>>

\* SymbolRange::join of the range that was made with another range
RangeJoin(with) ==
    /\ pc = "made"
    /\ LET self == returned.value[1]
       IN  returned' = [call      |-> "join",
                        arguments |-> <<self.lowest, self.highest, with.lowest, with.highest>>,
                        value     |-> <<range_join(self, with)>>]
    /\ pc' = "joined"
    /\ UNCHANGED <<added, ranges, to_process, result, ndfa, calls, compiler, reader,
                   current_state, patterns, tape, tokens, pos, tree,
                   second, scripts, split>>

RangesNext ==
    \/ \E lowest \in Symbols, highest \in Symbols : RangeNew(lowest, highest)
    \/ \E with \in AllRanges : RangeJoin(with)
    \/ \E range \in AllRanges : AddRange(range)
    \/ NonOverlappingStart
    \/ NonOverlappingStep
    \/ NonOverlappingReturn

SpecRanges == MapInit /\ [][RangesNext]_vars


\* ------------------------------------------------------------------------
\* The DFA builder called in any order: transition and accept also before
\* the first start_state
\* ------------------------------------------------------------------------

\* DfaBuilder::transition called before the first start_state
BuilderTransitionBeforeStart(symbol, target_state) ==
    /\ pc = "builder"
    /\ Len(compiler.dfa.states) = 0
    /\ Len(compiler.dfa.transitions) < MaxDfaTransitions
    /\ compiler' = [compiler EXCEPT !.dfa = builder_transition(@, symbol, target_state)]
    /\ UNCHANGED <<pc, added, ranges, to_process, result, ndfa, calls, reader, current_state,
                   patterns, tape, tokens, pos, returned, tree,
                   second, scripts, split>>

\* DfaBuilder::accept called before the first start_state
BuilderAcceptBeforeStart(symbol) ==
    /\ pc = "builder"
    /\ Len(compiler.dfa.states) = 0
    /\ compiler' = [compiler EXCEPT !.dfa = builder_accept(@, symbol)]
    /\ UNCHANGED <<pc, added, ranges, to_process, result, ndfa, calls, reader, current_state,
                   patterns, tape, tokens, pos, returned, tree,
                   second, scripts, split>>

BuilderNext ==
    \/ BuilderStartState
    \/ \E symbol \in NdfaRanges, target_state \in 0..MaxDfaStates :
           BuilderTransition(symbol, target_state)
    \/ \E symbol \in OutputSymbols : BuilderAccept(symbol)
    \/ BuilderBuild
    \/ \E symbol \in NdfaRanges, target_state \in 0..MaxDfaStates :
           BuilderTransitionBeforeStart(symbol, target_state)
    \/ \E symbol \in OutputSymbols : BuilderAcceptBeforeStart(symbol)

SpecBuilder == MatchInit /\ [][BuilderNext]_vars


\* ------------------------------------------------------------------------
\* split_reader.rs: split(), then next_symbol on the two readers in any order
\* ------------------------------------------------------------------------

\* The least of a non-empty sequence of numbers
MinOf(seq) == CHOOSE x \in SeqRange(seq) : \A y \in SeqRange(seq) : x <= y

\* The greatest of a non-empty sequence of numbers
MaxOf(seq) == CHOOSE x \in SeqRange(seq) : \A y \in SeqRange(seq) : y <= x

\* VecDeque::pop_front count times
pop_front(buffer, count) ==
    IF count >= Len(buffer) THEN <<>> ELSE SubSeq(buffer, count + 1, Len(buffer))

\* clear_buffer dropping what the reader furthest ahead has read
clear_bufferToHighest(b) ==
    LET highest_pos == MaxOf(b.positions)
    IN  [b EXCEPT !.buffer    = pop_front(@, highest_pos),
                  !.positions = [i \in 1..Len(@) |-> Max(@[i], highest_pos) - highest_pos]]

\* usize::max_value(), the position of a dropped reader, for a usize of 8 bits
UsizeMax == (2 ^ 8) - 1

\* SplitSymbolReaderBuffer::clear_buffer: the pop_front calls it makes
clear_buffer_pops(b) ==
    LET lowest_pos == MinOf(b.positions)
    IN  IF lowest_pos < UsizeMax THEN lowest_pos ELSE 0

\* SplitSymbolReaderBuffer::clear_buffer
clear_buffer(b) ==
    LET lowest_pos == MinOf(b.positions)
    IN  IF lowest_pos < UsizeMax
        THEN [b EXCEPT !.buffer    = pop_front(@, lowest_pos),
                       !.positions = [i \in 1..Len(@) |-> @[i] - lowest_pos]]
        ELSE b

\* Drop for SplitSymbolReader: the position of the reader is set to
\* usize::max_value() before clear_buffer is called
drop_position(b, reader_id) == [b EXCEPT !.positions[reader_id + 1] = UsizeMax]

\* SplitSymbolReaderBuffer::read: the position of the reader moved on, and
\* the buffer cleared if the reader was at its start
moved_on(b, reader_id, buf_pos) ==
    LET moved == [b EXCEPT !.positions[reader_id + 1] = buf_pos + 1]
    IN  IF buf_pos = 0 THEN clear_buffer(moved) ELSE moved

\* SplitSymbolReaderBuffer::read for a reader at the end of the buffer: the
\* symbol read from the underlying reader is buffered and returned
read_at_end(b, reader_id, buf_pos, next) ==
    [buffer      |-> moved_on([b EXCEPT !.buffer = Append(@, next.symbol),
                                         !.pulled = Append(@, next.symbol)],
                              reader_id, buf_pos),
     next_symbol |-> next.symbol,
     reader      |-> next.reader]

\* SplitSymbolReaderBuffer::read
split_read(b, symbol_reader, reader_id) ==
    LET buf_pos == b.positions[reader_id + 1]
    IN  IF buf_pos >= Len(b.buffer)
        THEN read_at_end(b, reader_id, buf_pos, reader_next_symbol(symbol_reader))
        ELSE [buffer      |-> moved_on(b, reader_id, buf_pos),
              next_symbol |-> b.buffer[buf_pos + 1],
              reader      |-> symbol_reader]

\* The sources that are split
SplitStreams == UNION { [1..len -> {SymA, SymB}] : len \in 0..MaxSplitStream }

\* split(): the two readers share a buffer with positions [0, 0]
SplitInit ==
    /\ pc = "split"
    /\ added = {}
    /\ ranges = <<>>
    /\ to_process = <<>>
    /\ result = <<>>
    /\ ndfa = NewNdfa
    /\ calls = NoCalls
    /\ compiler = NoCompiler
    /\ \E symbols \in SplitStreams : reader = [symbols |-> symbols, pos |-> 0]
    /\ current_state = NoMatch
    /\ patterns = <<>>
    /\ tape = NewTape(<<>>)
    /\ tokens = <<>>
    /\ pos = 0
    /\ returned = NoReturn
    /\ tree = NoTree
    /\ second = NoSecond
    /\ scripts = NoScripts
    /\ split = NoSplit

\* The reader takes what read returned
SplitReturned(reader_id, call) ==
    /\ split' = [call.buffer EXCEPT !.read[reader_id + 1] = Append(@, call.next_symbol)]
    /\ reader' = call.reader

\* SplitSymbolReader::next_symbol on the reader with the id
SplitNextSymbol(reader_id) ==
    /\ pc = "split"
    /\ ~split.dropped[reader_id + 1]
    /\ Len(split.read[reader_id + 1]) < Len(reader.symbols) + MaxEndReads
    /\ SplitReturned(reader_id, split_read(split, reader, reader_id))
    /\ UNCHANGED <<pc, added, ranges, to_process, result, ndfa, calls, compiler, current_state,
                   patterns, tape, tokens, pos, returned, tree, second, scripts>>

SplitNext == \E reader_id \in {0, 1} : SplitNextSymbol(reader_id)

SpecSplit == SplitInit /\ [][SplitNext]_vars

\* ------------------------------------------------------------------------
\* Split readers that are dropped: reads on the readers that are left, and
\* the drop of either reader at any time
\* ------------------------------------------------------------------------

\* Drop for the reader with the id
SplitDrop(reader_id) ==
    /\ pc = "split"
    /\ ~split.dropped[reader_id + 1]
    /\ split' = [clear_buffer(drop_position(split, reader_id))
                     EXCEPT !.dropped[reader_id + 1] = TRUE]
    /\ UNCHANGED <<pc, added, ranges, to_process, result, ndfa, calls, compiler, reader,
                   current_state, patterns, tape, tokens, pos, returned, tree, second, scripts>>

SplitDropNext ==
    \/ \E reader_id \in {0, 1} : SplitNextSymbol(reader_id)
    \/ \E reader_id \in {0, 1} : SplitDrop(reader_id)

SpecSplitDrop == SplitInit /\ [][SplitDropNext]_vars


\* ------------------------------------------------------------------------
\* Two tokenizers on one DFA: add_pattern, prepare_to_match, then
\* Tokenizer::new_prepared twice with a reference to the DFA, and next_token
\* and skip_input on either tokenizer in any order
\* ------------------------------------------------------------------------

\* The inputs of the two tokenizers
SharedStreams == UNION { [1..len -> {SymA, SymB}] : len \in 0..MaxSharedStream }

\* The tape field read as if both tokenizers held the tape of the first
tokenizer_tapeOfFirst(which) == tape

\* Tokenizer.tape: each tokenizer owns its tape
tokenizer_tape(which) == IF which = 1 THEN tape ELSE second.tape

\* Tokenizer::new_prepared(source, &dfa), for each of the two tokenizers
SharedNewPrepared(first_symbols, second_symbols) ==
    /\ pc = "compiled"
    /\ tape' = NewTape(first_symbols)
    /\ tokens' = <<>>
    /\ second' = [tape |-> NewTape(second_symbols), tokens |-> <<>>]
    /\ scripts' = NoScripts
    /\ pc' = "tokenizers"
    /\ UNCHANGED <<added, ranges, to_process, result, ndfa, calls, compiler, reader,
                   current_state, patterns, pos, returned, tree, split>>

\* The caller takes what the call on its tokenizer returned
SharedReturned(which, name, call) ==
    /\ pc' = IF call.panic THEN "panic" ELSE pc
    /\ IF which = 1
       THEN /\ tape' = call.tape
            /\ tokens' = IF call.token # NoToken THEN Append(tokens, call.token) ELSE tokens
            /\ UNCHANGED second
       ELSE /\ second' = [tape   |-> call.tape,
                          tokens |-> IF call.token # NoToken
                                     THEN Append(second.tokens, call.token)
                                     ELSE second.tokens]
            /\ UNCHANGED <<tape, tokens>>
    /\ scripts' = [scripts EXCEPT ![which] = Append(@, name)]

\* Tokenizer::next_token on one of the two tokenizers
SharedNextToken(which) ==
    /\ pc = "tokenizers"
    /\ Len(scripts[which]) < MaxSharedCalls
    /\ SharedReturned(which, "next_token", next_token(compiler.dfa, tokenizer_tape(which)))
    /\ UNCHANGED <<added, ranges, to_process, result, ndfa, calls, compiler, reader,
                   current_state, patterns, pos, returned, tree, split>>

\* Tokenizer::skip_input on one of the two tokenizers
SharedSkipInput(which) ==
    /\ pc = "tokenizers"
    /\ Len(scripts[which]) < MaxSharedCalls
    /\ SharedReturned(which, "skip_input",
                      [panic |-> FALSE,
                       tape  |-> tape_next_symbol(tokenizer_tape(which)).tape,
                       token |-> NoToken])
    /\ UNCHANGED <<added, ranges, to_process, result, ndfa, calls, compiler, reader,
                   current_state, patterns, pos, returned, tree, split>>

SharedNext ==
    \/ \E pattern \in TokenPatterns, output \in OutputSymbols : AddPattern(pattern, output)
    \/ ToNdfa
    \/ NonOverlappingStep
    \/ NonOverlappingReturn
    \/ FixFinish
    \/ CompileStart
    \/ CompileStep
    \/ CompileBuild
    \/ \E first_symbols \in SharedStreams, second_symbols \in SharedStreams :
           SharedNewPrepared(first_symbols, second_symbols)
    \/ \E which \in {1, 2} : SharedNextToken(which)
    \/ \E which \in {1, 2} : SharedSkipInput(which)

SpecShared == TokenInit /\ [][SharedNext]_vars

\* ------------------------------------------------------------------------
\* Looking up the ranges of a symbol map that overlap a range
\* ------------------------------------------------------------------------

\* SymbolMap::find_overlapping_ranges(range), on the map the ranges were added
\* to or on the map to_non_overlapping_map returned
FindOverlappingRanges(range) ==
    /\ pc \in {"build", "done"}
    /\ returned' = [call      |-> "find_overlapping_ranges",
                    arguments |-> <<range.lowest, range.highest>>,
                    value     |-> find_overlapping_ranges(IF pc = "build" THEN ranges ELSE result,
                                                          range)]
    /\ pc' = IF pc = "build" THEN "found" ELSE "found_in_map"
    /\ UNCHANGED <<added, ranges, to_process, result, ndfa, calls, compiler, reader,
                   current_state, patterns, tape, tokens, pos, tree, second, scripts, split>>

LookupNext ==
    \/ \E range \in AllRanges : AddRange(range)
    \/ NonOverlappingStart
    \/ NonOverlappingStep
    \/ NonOverlappingReturn
    \/ \E range \in AllRanges : FindOverlappingRanges(range)

SpecLookup == MapInit /\ [][LookupNext]_vars

\* ------------------------------------------------------------------------
\* AnnotatedStream::from_tokenizer on the DFA of a token matcher whose
\* patterns read on past a shorter token
\* ------------------------------------------------------------------------

\* 'aba' and 'b', with the patterns of the tokenizer tests
Aba == Match(<<SymA, SymB, SymA>>)
JustB == Match(<<SymB>>)
LookaheadPatterns == {Aba, JustB} \cup TokenPatterns

LookaheadNext ==
    \/ \E pattern \in LookaheadPatterns, output \in OutputSymbols : AddPattern(pattern, output)
    \/ ToNdfa
    \/ NonOverlappingStep
    \/ NonOverlappingReturn
    \/ FixFinish
    \/ CompileStart
    \/ CompileStep
    \/ CompileBuild
    \/ \E symbols \in AnnotatedStreams : FromTokenizer(symbols)
    \/ FromTokenizerLoop

SpecLookahead == TokenInit /\ [][LookaheadNext]_vars

\* ------------------------------------------------------------------------
\* Properties of the symbol map
\* ------------------------------------------------------------------------

\* The symbols of a range
SymbolsOf(r) == { s \in Symbols : r.lowest <= s /\ s <= r.highest }

\* The symbols covered by a set of ranges
UnionOf(rs) == UNION { SymbolsOf(r) : r \in rs }

\* p lies within r
ContainedIn(p, r) == r.lowest <= p.lowest /\ p.highest <= r.highest

\* P partitions R: same union, and every r of R is the union of the pieces within it
PartitionOf(P, R) ==
    /\ UnionOf(P) = UnionOf(R)
    /\ \A r \in R : SymbolsOf(r) = UnionOf({ p \in P : ContainedIn(p, r) })

\* The ranges of a sequence are pairwise disjoint
PairwiseDisjoint(seq) ==
    \A i, j \in 1..Len(seq) : i # j => ~Overlaps(seq[i], seq[j])

\* The ranges of a sequence ascend by lowest symbol
SortedByLowest(seq) ==
    \A i \in 1..(Len(seq) - 1) : seq[i].lowest < seq[i + 1].lowest

\* C1: when to_non_overlapping_map returns, the emitted ranges cover exactly the
\* symbols of the added ranges and every added range is the union of the emitted
\* ranges that lie within it; {[0,5],[2,2],[3,6]} gives [0,1],[2,2],[3,5],[6,6]
\* and {[0,4],[2,5],[3,6]} gives [0,1],[2,2],[3,4],[5,5],[6,6]
C1_PartitionOfAdded ==
    pc = "done" =>
        /\ PartitionOf(SeqRange(result), added)
        /\ added = {NewRange(0, 5), NewRange(2, 2), NewRange(3, 6)}
               => result = <<NewRange(0, 1), NewRange(2, 2), NewRange(3, 5), NewRange(6, 6)>>
        /\ added = {NewRange(0, 4), NewRange(2, 5), NewRange(3, 6)}
               => result = <<NewRange(0, 1), NewRange(2, 2), NewRange(3, 4),
                             NewRange(5, 5), NewRange(6, 6)>>

\* C2: when to_non_overlapping_map returns, the emitted ranges are pairwise
\* disjoint and ascend by lowest symbol; two ranges [a,b] and [b,c] that share
\* the one symbol b give [a,b-1],[b,b],[b+1,c], as {[0,5],[5,10]} gives
\* [0,4],[5,5],[6,10]
C2_DisjointSorted ==
    pc = "done" =>
        /\ PairwiseDisjoint(result)
        /\ SortedByLowest(result)
        /\ \A a, b, c \in Symbols :
               (a < b /\ b < c /\ added = {NewRange(a, b), NewRange(b, c)})
                   => result = <<NewRange(a, b - 1), NewRange(b, b), NewRange(b + 1, c)>>

\* ------------------------------------------------------------------------
\* Properties of fix_overlapping_ranges
\* ------------------------------------------------------------------------

\* Every range on a transition of the NDFA
TransitionRanges(n) ==
    UNION { { n.transitions[st][t][1] : t \in 1..Len(n.transitions[st]) } :
            st \in 1..Len(n.transitions) }

\* The states that state reaches on symbol through its own transitions
TargetsOn(n, state, symbol) ==
    IF state < Len(n.transitions)
    THEN { n.transitions[state + 1][t][2] : t \in { u \in 1..Len(n.transitions[state + 1]) :
                                              Includes(n.transitions[state + 1][u][1], symbol) } }
    ELSE {}

\* Two NDFAs have the same transition relation, joins and output symbols
SameRelation(before, after) ==
    /\ \A state \in StateIds, symbol \in Symbols :
           TargetsOn(before, state, symbol) = TargetsOn(after, state, symbol)
    /\ after.joined_with = before.joined_with
    /\ after.output_symbols = before.output_symbols

\* Any two ranges of the set are equal or share no symbol
EqualOrDisjoint(rs) == \A a, b \in rs : a # b => ~Overlaps(a, b)

\* C3: after fix_overlapping_ranges, any two transitions of the NDFA whose
\* ranges are not equal have ranges that share no symbol
C3_FixedRangesDisjoint ==
    pc = "fixed" => EqualOrDisjoint(TransitionRanges(ndfa))

\* C3 witness: fix_overlapping_ranges has returned for an NDFA that had two
\* unequal transition ranges sharing a symbol
C3_Witness ==
    /\ pc = "fixed"
    /\ ~EqualOrDisjoint(added)

\* C4: fix_overlapping_ranges leaves the transition relation, the joins and the
\* output symbols of the NDFA as they were
C4_FixPreservesRelation ==
    [][pc' = "fixed" => SameRelation(ndfa, ndfa')]_vars

\* ------------------------------------------------------------------------
\* Properties of the compiled DFA
\* ------------------------------------------------------------------------

\* Every two ranges on the transitions of the NDFA are equal or disjoint
Normalized(n) == EqualOrDisjoint(TransitionRanges(n))

\* The edges of a DFA state ascend by lowest symbol
EdgesSorted(edges) ==
    \A i, j \in 1..Len(edges) : i < j => edges[i][1].lowest < edges[j][1].lowest

\* No two edges of a DFA state share a symbol
EdgesDisjoint(edges) ==
    \A i, j \in 1..Len(edges) : i # j => ~Overlaps(edges[i][1], edges[j][1])

\* C5: in every DFA compiled from an NDFA with normalized ranges, the edges of
\* every state are sorted by ascending lowest symbol and pairwise disjoint, and
\* every edge leads to a state below count_states()
C5_CompiledEdgesOrdered ==
    (pc = "compiled" /\ Normalized(ndfa)) =>
        \A state \in 0..(dfa_count_states(compiler.dfa) - 1) :
            LET edges == dfa_get_transitions_for_state(compiler.dfa, state)
            IN  /\ EdgesSorted(edges)
                /\ EdgesDisjoint(edges)
                /\ \A e \in 1..Len(edges) : edges[e][2] < dfa_count_states(compiler.dfa)

\* A compiled DFA with a state that has two edges, the higher one added first
C5_Witness ==
    /\ pc = "compiled"
    /\ Normalized(ndfa)
    /\ \E state \in 1..Len(ndfa.transitions) :
           /\ Len(ndfa.transitions[state]) = 2
           /\ ndfa.transitions[state][1][1].lowest > ndfa.transitions[state][2][1].lowest
    /\ \E state \in 0..(dfa_count_states(compiler.dfa) - 1) :
           Len(dfa_get_transitions_for_state(compiler.dfa, state)) = 2

\* The input strings the language is compared on
Words == UNION { [1..len -> 0..NdfaSymTop] : len \in 0..MaxWord }

\* The NDFA states a set of states reaches on a symbol, through join closures
NdfaStep(n, current, symbol) ==
    { target \in StateIds :
        \E s \in current : \E j \in get_join_closure(n, s) :
            /\ j < Len(n.transitions)
            /\ \E t \in 1..Len(n.transitions[j + 1]) :
                   /\ Includes(n.transitions[j + 1][t][1], symbol)
                   /\ n.transitions[j + 1][t][2] = target }

\* The NDFA states reached from state 0 on a word
RECURSIVE NdfaRun(_, _)
NdfaRun(n, w) ==
    IF w = <<>> THEN {0} ELSE NdfaStep(n, NdfaRun(n, Front(w)), Last(w))

\* The output symbols carried by a set of NDFA states, through join closures
CarriedOutputs(n, current) ==
    { n.output_symbols[j] :
        j \in (UNION { get_join_closure(n, s) : s \in current }) \cap DOMAIN n.output_symbols }

\* The DFA stepped from its start on a word; stays finished once it has no edge
RECURSIVE DfaRun(_, _)
DfaRun(d, w) ==
    IF w = <<>> THEN dfa_start(d)
    ELSE LET before == DfaRun(d, Front(w))
         IN  IF before.kind = "More" THEN dfa_next(d, before, Last(w)) ELSE before

\* C6: the DFA compiled from an NDFA with normalized ranges has an edge to
\* follow on a word exactly when the NDFA has a run on it, and then stands in an
\* accepting state exactly when a state the NDFA can be in carries an output
\* symbol through its join closure
C6_SubsetConstructionPreservesLanguage ==
    (pc = "compiled" /\ Normalized(ndfa)) =>
        \A w \in Words :
            LET run == DfaRun(compiler.dfa, w)
            IN  /\ (run.kind = "More") <=> (NdfaRun(ndfa, w) # {})
                /\ (run.kind = "More") =>
                       ((compiler.dfa.accept[run.state + 1] # None)
                            <=> (CarriedOutputs(ndfa, NdfaRun(ndfa, w)) # {}))

\* A compiled DFA that accepts a word of two symbols through a joined state,
\* and has no edge for some other word
C6_Witness ==
    /\ pc = "compiled"
    /\ Normalized(ndfa)
    /\ \E s \in 1..Len(ndfa.joined_with) : ndfa.joined_with[s] # <<>>
    /\ 0 \notin DOMAIN ndfa.output_symbols
    /\ \E w \in Words :
           /\ Len(w) = 2
           /\ DfaRun(compiler.dfa, w).kind = "More"
           /\ compiler.dfa.accept[DfaRun(compiler.dfa, w).state + 1] # None
           /\ \A t \in 1..Len(ndfa.transitions[1]) :
                  ~Includes(ndfa.transitions[1][t][1], w[1])
    /\ \E w \in Words : DfaRun(compiler.dfa, w).kind # "More"

\* The least of a set of output symbols, None for the empty set
LeastOutput(outputs) ==
    IF outputs = {} THEN None
    ELSE CHOOSE o \in outputs : \A other \in outputs : o <= other

\* C8: the accept symbol of every compiled DFA state is the least of the output
\* symbols carried by the NDFA states it merges, symbols inherited through joins
\* included; in particular for the start state, which decides the empty input
C8_AcceptIsLeastOutput ==
    pc = "compiled" =>
        \A i \in 1..Len(compiler.states) :
            compiler.dfa.accept[i] =
                LeastOutput(CarriedOutputs(ndfa, SeqRange(compiler.states[i].source_states)))

\* ------------------------------------------------------------------------
\* Properties of matching
\* ------------------------------------------------------------------------

\* Where the run of the DFA goes from a state on a symbol: along the first edge
\* of the state that includes the symbol; Stuck without one
Stuck == None

EdgeTarget(d, state, symbol) ==
    LET edges   == dfa_get_transitions_for_state(d, state)
        matches == { e \in 1..Len(edges) : Includes(edges[e][1], symbol) }
    IN  IF matches = {} THEN Stuck
        ELSE edges[CHOOSE e \in matches : \A other \in matches : e <= other][2]

\* The state of the run from state 0 after the first k symbols of s
RECURSIVE RunState(_, _, _)
RunState(d, s, k) ==
    IF k = 0 THEN 0
    ELSE LET before == RunState(d, s, k - 1)
         IN  IF before = Stuck THEN Stuck ELSE EdgeTarget(d, before, s[k])

\* The prefix lengths of s at which the run stands in an accepting state
AcceptingPrefixes(d, s) ==
    { k \in 0..Len(s) : RunState(d, s, k) # Stuck /\ d.accept[RunState(d, s, k) + 1] # None }

\* C7: a match returns Some(k) exactly for the greatest prefix length k at which
\* the run of the DFA from state 0 stands in an accepting state before it is
\* stuck or the stream ends, and None exactly when the run visits no accepting
\* state
C7_LongestAcceptingPrefix ==
    pc = "matched" =>
        LET accepting == AcceptingPrefixes(compiler.dfa, reader.symbols)
        IN  matches_symbol_range(current_state) =
                IF accepting = {} THEN None
                ELSE CHOOSE k \in accepting : \A other \in accepting : other <= k

\* A match that followed an edge past an accepting state, then read a symbol it
\* had no edge for, and reports the earlier length
C7_Witness ==
    /\ pc = "matched"
    /\ matches_symbol_range(current_state) # None
    /\ matches_symbol_range(current_state) > 0
    /\ matches_symbol_range(current_state) < current_state.count
    /\ current_state.count < reader.pos

\* ------------------------------------------------------------------------
\* Properties of token matchers
\* ------------------------------------------------------------------------

\* The token matcher of the scenario: a+b producing Aaab, then ab+ producing Abbb
ScenarioB(Aaab, Abbb) == patterns = <<<<APlusB, Aaab>>, <<ABPlus, Abbb>>>>

\* A finished match of the stream is an Accept of the symbol
IsAccepted(stream, symbol) ==
    (pc = "matched" /\ reader.symbols = stream) =>
        (current_state.kind = "Accept" /\ current_state.accept[2] = symbol)

\* C9 as stated: with a+b producing Aaab, ab+ producing Abbb and Aaab ordered
\* below Abbb, "aaab" produces Aaab, "ab" produces Abbb and "abbbb" produces Abbb
C9_ScenarioB_AaabLower ==
    LET Aaab == 0
        Abbb == 1
    IN  ScenarioB(Aaab, Abbb) =>
            /\ IsAccepted(<<SymA, SymA, SymA, SymB>>, Aaab)
            /\ IsAccepted(<<SymA, SymB>>, Abbb)
            /\ IsAccepted(<<SymA, SymB, SymB, SymB, SymB>>, Abbb)

\* C9 amended: with a+b producing Aaab, ab+ producing Abbb and Abbb ordered
\* below Aaab, "aaab" produces Aaab, "ab" produces Abbb and "abbbb" produces Abbb
C9_ScenarioB_AbbbLower ==
    LET Abbb == 0
        Aaab == 1
    IN  ScenarioB(Aaab, Abbb) =>
            /\ IsAccepted(<<SymA, SymA, SymA, SymB>>, Aaab)
            /\ IsAccepted(<<SymA, SymB>>, Abbb)
            /\ IsAccepted(<<SymA, SymB, SymB, SymB, SymB>>, Abbb)

\* The match of "ab", which both patterns accept, has finished with Abbb ordered
\* below Aaab
C9_Witness ==
    /\ ScenarioB(1, 0)
    /\ pc = "matched"
    /\ reader.symbols = <<SymA, SymB>>
    /\ current_state.kind = "Accept"

\* ------------------------------------------------------------------------
\* Properties of tokenizers
\* ------------------------------------------------------------------------

\* C10: over any sequence of next_token and skip_input calls the tokens returned
\* start at strictly increasing positions, each at or after the end of the one
\* before it
C10_TokensAscendDisjoint ==
    \A i, j \in 1..Len(tokens) :
        i < j => (tokens[i].start < tokens[j].start /\ tokens[i].end <= tokens[j].start)

\* Two tokens have been returned with a skipped position between them
C10_Witness ==
    /\ pc = "tokenizer"
    /\ Len(tokens) >= 2
    /\ tokens[1].end < tokens[2].start

\* The symbols of the source from the tape's source position on
RestOfInput(t) ==
    SubSeq(t.read_from.symbols, t.source_position + 1, Len(t.read_from.symbols))

\* The greatest prefix length of s at which the run of the DFA accepts; None
\* when it accepts nowhere
LongestAccept(d, s) ==
    LET accepting == AcceptingPrefixes(d, s)
    IN  IF accepting = {} THEN None
        ELSE CHOOSE k \in accepting : \A other \in accepting : other <= k

\* C11: no token next_token has returned has an empty range; and where the
\* longest accept of the DFA at the current position has length 0, next_token
\* returns no token and leaves the position where it was, so that skip_input
\* then returns the symbol at that position and moves one past it
C11_NoEmptyToken ==
    pc = "tokenizer" =>
        /\ \A i \in 1..Len(tokens) : tokens[i].start < tokens[i].end
        /\ LET call == next_token(compiler.dfa, tape)
               rest == RestOfInput(tape)
           IN  (~call.panic /\ LongestAccept(compiler.dfa, rest) = 0) =>
                   /\ call.token = NoToken
                   /\ call.tape.source_position = tape.source_position
                   /\ rest # <<>> =>
                          LET skipped == tape_next_symbol(call.tape)
                          IN  /\ skipped.symbol = rest[1]
                              /\ skipped.tape.source_position = tape.source_position + 1

\* A tokenizer whose DFA accepts only the empty prefix at a position it has
\* reached by skipping, with input left
C11_Witness ==
    /\ pc = "tokenizer"
    /\ tape.source_position > 0
    /\ tokens = <<>>
    /\ RestOfInput(tape) # <<>>
    /\ ~next_token(compiler.dfa, tape).panic
    /\ LongestAccept(compiler.dfa, RestOfInput(tape)) = 0
    /\ match_pattern(compiler.dfa, dfa_start(compiler.dfa), tape).tape.source_position
           > tape.source_position

\* The token matcher of the number streams: digits+ producing Digit, then
\* spaces+ producing Whitespace
NumberMatcher(Digit, Whitespace) ==
    patterns = <<<<DigitsPlus, Digit>>, <<SpacesPlus, Whitespace>>>>

\* Where the tape stands at the position, next_token returns the token
ReturnsAt(position, token) ==
    tape.source_position = position =>
        /\ next_token(compiler.dfa, tape).token = token
        /\ next_token(compiler.dfa, tape).tape.source_position = token.end

\* C12: a token next_token returns from a position has the length of the
\* greatest non-empty prefix of the input from there that the run of the DFA
\* accepts, and the output symbol of the state accepting it; with digits+ as
\* Digit and spaces+ as Whitespace over "12 42 13" the tokens are (0..2, Digit),
\* (2..3, Whitespace), (3..5, Digit), (5..6, Whitespace), (6..8, Digit)
C12_MaximalMunch ==
    pc = "tokenizer" =>
        /\ LET call == next_token(compiler.dfa, tape)
               rest == RestOfInput(tape)
               k    == LongestAccept(compiler.dfa, rest)
           IN  (~call.panic /\ call.token # NoToken) =>
                   /\ k >= 1
                   /\ call.token.start = tape.source_position
                   /\ call.token.end = tape.source_position + k
                   /\ call.token.output = compiler.dfa.accept[RunState(compiler.dfa, rest, k) + 1]
        /\ LET Digit      == 0
               Whitespace == 1
           IN  (NumberMatcher(Digit, Whitespace) /\ tape.read_from.symbols = NumberInput) =>
                   /\ ReturnsAt(0, [start |-> 0, end |-> 2, output |-> Digit])
                   /\ ReturnsAt(2, [start |-> 2, end |-> 3, output |-> Whitespace])
                   /\ ReturnsAt(3, [start |-> 3, end |-> 5, output |-> Digit])
                   /\ ReturnsAt(5, [start |-> 5, end |-> 6, output |-> Whitespace])
                   /\ ReturnsAt(6, [start |-> 6, end |-> 8, output |-> Digit])

\* The five tokens of "12 42 13" have been returned
C12_Witness ==
    /\ pc = "tokenizer"
    /\ NumberMatcher(0, 1)
    /\ tape.read_from.symbols = NumberInput
    /\ Len(tokens) = 5
    /\ tokens[1].start = 0
    /\ tokens[5].end = Len(NumberInput)

\* C13: from_tokenizer terminates for every DFA, one accepting the empty prefix
\* included, and every finite input: once its loop is entered it is left, by the
\* break at the end of the input or by a panic of next_token
C13_FromTokenizerTerminates ==
    /\ (pc = "annotate") ~> (pc \in {"annotated", "panic"})
    /\ [][pc = "annotate" =>
              \/ /\ pc' = "annotate"
                 /\ Len(tokens') = Len(tokens) + 1
                 /\ Last(tokens').start < Last(tokens').end
                 /\ tape'.source_position > tape.source_position
              \/ /\ pc' = "annotate"
                 /\ tokens' = tokens
                 /\ tape'.source_position = tape.source_position + 1
              \/ pc' \in {"annotated", "panic"}]_vars

\* from_tokenizer has returned for a DFA whose start state accepts, after a
\* token and a skipped symbol
C13_Witness ==
    /\ pc = "annotated"
    /\ compiler.dfa.accept[1] # None
    /\ tokens # <<>>
    /\ \E p \in 0..(Len(tape.read_from.symbols) - 1) :
           \A i \in 1..Len(tokens) : ~(tokens[i].start <= p /\ p < tokens[i].end)

\* C14: rewind panics whenever it is asked for more symbols than lie between
\* the retained start (the creation of the tape or the last cut) and the read
\* position, also after an earlier rewind and after a cut at a rewound
\* position, and so never moves the read position before the retained start
C14_RewindPastStartPanics ==
    pc = "tape" =>
        \A num_symbols \in 0..MaxRewind :
            num_symbols > RetainedBeforeRead(tape) => RewindPanics(tape, num_symbols)

\* C15: the symbol next_symbol returns at an absolute position is the symbol
\* of the reader at that position, and None exactly at the length of the
\* source, after any next_symbol, cut and rewind within the retained symbols
C15_TapeReplaysReader ==
    pc = "tape" =>
        LET symbols == tape.read_from.symbols
            p       == tape_get_source_position(tape)
            read    == tape_next_symbol(tape)
        IN  /\ p <= Len(symbols)
            /\ p < Len(symbols) => read.symbol = symbols[p + 1]
            /\ p = Len(symbols) <=> read.symbol = None

\* A tape that has grown its buffer, rewound after a cut, with the whole of
\* the longest stream read
C15_Witness ==
    /\ pc = "tape"
    /\ Len(tape.buffer) > TapeInitialSize
    /\ tape.first_symbol_index > 0
    /\ tape.read_index # tape.last_symbol_index
    /\ tape.read_from.pos = MaxTapeStream
    /\ tape.end_of_reader

\* The rewind next_token issues once match_pattern has returned: the symbols
\* the attempt read, the length it accepted and the symbols it rewinds by
IssuedRewind(start_pos, match_result) ==
    LET end_pos == tape_get_source_position(match_result.tape)
        length  == IF is_token(match_result.final) THEN match_result.final.accept[1] ELSE 0
    IN  [panic       |-> match_result.panic,
         after       |-> match_result.tape,
         read        |-> end_pos - start_pos,
         length      |-> length,
         num_symbols |-> end_pos - start_pos - length]

\* The rewind is well defined and stays at or after the last cut
RewindIsSafe(issued) ==
    ~issued.panic =>
        /\ issued.length <= issued.read
        /\ issued.num_symbols >= 0
        /\ issued.num_symbols <= RetainedBeforeRead(issued.after)
        /\ ~RewindPanics(issued.after, issued.num_symbols)

\* C16: whatever next_token and skip_input calls came before, the rewind
\* next_token issues is well defined, the length accepted being no more than
\* the symbols the attempt read, it stays at or after the last cut, and the
\* rewind of the tape does not panic
C16_TokenizerRewindsAreSafe ==
    pc = "tokenizer" =>
        RewindIsSafe(IssuedRewind(tape_get_source_position(tape),
                                  match_pattern(compiler.dfa, dfa_start(compiler.dfa), tape)))

\* A tokenizer that has skipped a symbol after its last token and now accepts
\* a token shorter than what the attempt reads
C16_Witness ==
    /\ pc = "tokenizer"
    /\ tokens # <<>>
    /\ tape.source_position > Last(tokens).end
    /\ LET match_result == match_pattern(compiler.dfa, dfa_start(compiler.dfa), tape)
       IN  /\ ~match_result.panic
           /\ is_token(match_result.final)
           /\ match_result.tape.source_position
                  > tape.source_position + match_result.final.accept[1]

\* C17: find_token(p) returns a token exactly when some token of the stream
\* has start <= p < end, and then returns that token; otherwise None
C17_FindTokenContaining ==
    returned.call = "find_token" =>
        LET p          == returned.arguments[1]
            containing == { i \in 1..Len(tokens) : tokens[i].start <= p /\ p < tokens[i].end }
        IN  /\ containing = {} <=> returned.value = <<>>
            /\ \A i \in containing : returned.value = <<tokens[i]>>

\* find_token has found a token around a position after its start, in a
\* stream with a position that no token holds
C17_Witness ==
    /\ returned.call = "find_token"
    /\ returned.value # <<>>
    /\ returned.value[1].start < returned.arguments[1]
    /\ Len(tokens) >= 2
    /\ find_token(tokens, tokens[1].end) = NoToken

\* C18: read_tokens_in_range(a..b) with a < b returns, in the order of the
\* stream, exactly the tokens that intersect [a, b): from the token holding a,
\* or else the first token starting after a, up to the first token whose
\* start is b or more
C18_TokensInRange ==
    returned.call = "read_tokens_in_range" =>
        LET a == returned.arguments[1]
            b == returned.arguments[2]
        IN  returned.value =
                SelectSeq(tokens, LAMBDA token : token.start < b /\ a < token.end)

\* read_tokens_in_range has returned two tokens or more, starting with the
\* token around the start of the range and leaving a later token out
C18_Witness ==
    /\ returned.call = "read_tokens_in_range"
    /\ Len(returned.value) >= 2
    /\ returned.value[1].start < returned.arguments[1]
    /\ Last(tokens).start >= returned.arguments[2]

\* The ranges of the tokens tile [from, to) in order
RECURSIVE Tiles(_, _, _)
Tiles(level_tokens, from, to) ==
    IF level_tokens = <<>> THEN from = to
    ELSE /\ Head(level_tokens).start = from
         /\ Head(level_tokens).end > from
         /\ Tiles(Tail(level_tokens), Head(level_tokens).end, to)

\* The token read at a position of a level: the token of the level that
\* holds it, or else the symbol at that position of the level beneath
ReadThrough(t, depth, token) ==
    LET stream  == t.annotations[Len(t.annotations) - depth]
        beneath == read_level(t, depth + 1)
        holding == { i \in 1..Len(stream.tokenized) :
                        stream.tokenized[i].start <= token.start
                            /\ token.start < stream.tokenized[i].end }
    IN  IF holding = {}
        THEN /\ token.end = token.start + 1
             /\ token.output = beneath[token.start + 1]
        ELSE \A i \in holding : token = stream.tokenized[i]

\* C19: at every level above the base tokens, read_level_tokens yields the
\* tokens of the level in order, each gap before, between and after them filled
\* position by position with the symbol of the level beneath, so the ranges
\* tile the positions from 0 to the length of the read-through beneath
C19_ReadThroughTiles ==
    pc = "tree" =>
        \A depth \in 0..(Len(tree.annotations) - 1) :
            LET level_tokens == read_level_tokens(tree, depth)
                stream       == tree.annotations[Len(tree.annotations) - depth]
            IN  /\ Tiles(level_tokens, 0, Len(read_level(tree, depth + 1)))
                /\ \A i \in 1..Len(level_tokens) : ReadThrough(tree, depth, level_tokens[i])
                /\ SelectSeq(level_tokens,
                             LAMBDA token : \E i \in 1..Len(stream.tokenized) :
                                                token = stream.tokenized[i])
                       = stream.tokenized

\* A tree of two levels whose upper level has a gap before its first token,
\* between two tokens, and after its last
C19_Witness ==
    /\ pc = "tree"
    /\ Len(tree.annotations) = 2
    /\ \E depth \in 0..1 :
           LET stream == tree.annotations[2 - depth]
           IN  /\ Len(stream.tokenized) >= 1
               /\ stream.tokenized[1].start > 0
               /\ Last(stream.tokenized).end < input_len(stream)

\* The expression parser is the matcher and "a+1+b" the base of the tree
IsScenarioF ==
    /\ patterns = ExpressionParser
    /\ tree.tokens = BaseStream(ScenarioF)

\* C20: on the base tokens Identifier Operator Digit Operator Identifier with
\* the grammar Digit | Identifier | Expression Operator Expression giving
\* Expression, each tokenize_top_level pushes one level; the three calls
\* return 3, 1 and 1 and leave the top level reading Expression Operator
\* Expression Operator Expression, then Expression Operator Expression, then
\* Expression
C20_ScenarioF ==
    (pc = "tree" /\ IsScenarioF) =>
        LET Expr  == TokExpression
            Op    == TokOperator
            calls_made == Len(tree.annotations)
        IN  /\ calls_made = 0 => returned = NoReturn
            /\ calls_made = 1 => /\ returned.value = <<3>>
                                 /\ read_level(tree, 0) = <<Expr, Op, Expr, Op, Expr>>
            /\ calls_made = 2 => /\ returned.value = <<1>>
                                 /\ read_level(tree, 0) = <<Expr, Op, Expr>>
                                 /\ read_level(tree, 1) = <<Expr, Op, Expr, Op, Expr>>
            /\ calls_made = 3 => /\ returned.value = <<1>>
                                 /\ read_level(tree, 0) = <<Expr>>
                                 /\ read_level(tree, 1) = <<Expr, Op, Expr>>

\* The three calls have been made on "a+1+b"
C20_Witness ==
    /\ pc = "tree"
    /\ IsScenarioF
    /\ Len(tree.annotations) = 3
    /\ returned.call = "tokenize_top_level"

\* ------------------------------------------------------------------------
\* Properties of prepared patterns
\* ------------------------------------------------------------------------

\* The pattern that was prepared, the stream it is run on, and what matches
\* returns once match_pattern has returned
PreparedPattern == patterns[1][1]
MatchedStream == reader.symbols
MatchesResult == matches_symbol_range(current_state)
MatchReturned == pc = "matched" /\ Len(patterns) = 1

\* w begins with p repeated k times
BeginsWithPower(p, k, w) ==
    Len(w) >= k * Len(p) /\ SubSeq(w, 1, k * Len(p)) = Power(p, k)

\* The length of the longest prefix of w that is p repeated k times for a k
\* of counts, None when there is none
LongestRepetition(p, counts, w) ==
    LET fitting == { k \in counts : BeginsWithPower(p, k, w) }
    IN  IF fitting = {} THEN None
        ELSE Len(p) * (CHOOSE k \in fitting : \A other \in fitting : other <= k)

\* The denotation of a pattern: whether it accepts the whole of w
RECURSIVE Accepts(_, _)
RECURSIVE AcceptsInTurn(_, _)
RECURSIVE AcceptsTimes(_, _, _)
AcceptsInTurn(pats, w) ==
    IF pats = <<>> THEN w = <<>>
    ELSE \E cut \in 0..Len(w) :
             /\ Accepts(Head(pats), SubSeq(w, 1, cut))
             /\ AcceptsInTurn(Tail(pats), SubSeq(w, cut + 1, Len(w)))

AcceptsTimes(pattern, k, w) ==
    IF k = 0 THEN w = <<>>
    ELSE \E cut \in 0..Len(w) :
             /\ Accepts(pattern, SubSeq(w, 1, cut))
             /\ AcceptsTimes(pattern, k - 1, SubSeq(w, cut + 1, Len(w)))

Accepts(pattern, w) ==
    CASE pattern.type = "Match" -> w = pattern.symbols
      [] pattern.type = "MatchRange" ->
             Len(w) = 1 /\ pattern.symbols[1] <= w[1] /\ w[1] <= pattern.symbols[2]
      [] pattern.type = "RepeatInfinite" ->
             \E k \in pattern.count..Max(pattern.count, Len(w)) :
                 AcceptsTimes(pattern.patterns[1], k, w)
      [] pattern.type = "Repeat" ->
             \E k \in pattern.range[1]..(pattern.range[2] - 1) :
                 AcceptsTimes(pattern.patterns[1], k, w)
      [] pattern.type = "MatchAll" -> AcceptsInTurn(pattern.patterns, w)
      [] pattern.type = "MatchAny" ->
             \E i \in 1..Len(pattern.patterns) : Accepts(pattern.patterns[i], w)

\* The literal "abc"
Abc == <<SymA, SymB, SymC>>

\* C21: the DFA of literal.repeat(a..b) accepts the literal repeated k times
\* iff a <= k < b, and matches returns the length of the longest prefix that
\* is such a repetition; "abc".repeat(2..4) gives None on "abc", 6 on
\* "abcabc", and 9 on "abcabcabc" and on "abcabcabcabc"
C21_RepeatWithinBounds ==
    (MatchReturned /\ PreparedPattern.type = "Repeat") =>
        LET p == PreparedPattern.patterns[1].symbols
            a == PreparedPattern.range[1]
            b == PreparedPattern.range[2]
        IN  /\ MatchesResult = LongestRepetition(p, a..(b - 1), MatchedStream)
            /\ \A k \in 0..(MaxRepeat + 1) :
                   MatchedStream = Power(p, k) =>
                       ((MatchesResult = Len(MatchedStream)) <=> (a <= k /\ k < b))
            /\ (p = Abc /\ a = 2 /\ b = 4) =>
                   /\ MatchedStream = Power(Abc, 1) => MatchesResult = None
                   /\ MatchedStream = Power(Abc, 2) => MatchesResult = 6
                   /\ MatchedStream = Power(Abc, 3) => MatchesResult = 9
                   /\ MatchedStream = Power(Abc, 4) => MatchesResult = 9

\* "abc".repeat(2..4) has been run on "abcabcabcabc" and matches returned 9
C21_Witness ==
    /\ MatchReturned
    /\ PreparedPattern = Repeat(<<2, 4>>, Match(Abc))
    /\ MatchedStream = Power(Abc, 4)
    /\ MatchesResult = 9

\* C22: the DFA of literal.repeat_forever(m) accepts the literal repeated k
\* times iff k >= m, and when a further repetition fails part-way matches
\* returns the length of the last complete repetition that was accepted;
\* "abc".repeat_forever(1) on "abcabcxy" gives 6
C22_RepeatForeverAtLeast ==
    (MatchReturned /\ PreparedPattern.type = "RepeatInfinite") =>
        LET p == PreparedPattern.patterns[1].symbols
            m == PreparedPattern.count
        IN  /\ MatchesResult = LongestRepetition(p, m..Max(m, Len(MatchedStream)),
                                                 MatchedStream)
            /\ \A k \in 0..(MaxRepeat + 1) :
                   MatchedStream = Power(p, k) =>
                       ((MatchesResult = Len(MatchedStream)) <=> (k >= m))
            /\ (p = Abc /\ m = 1 /\ MatchedStream = Power(Abc, 2) \o <<SymX, SymY>>) =>
                   MatchesResult = 6

\* "abc".repeat_forever(1) has been run on "abcabcxy" and matches returned 6
C22_Witness ==
    /\ MatchReturned
    /\ PreparedPattern = RepeatInfinite(1, Match(Abc))
    /\ MatchedStream = Power(Abc, 2) \o <<SymX, SymY>>
    /\ MatchesResult = 6

JoinedDirectly(n, state) ==
    IF state < Len(n.joined_with) THEN SeqRange(n.joined_with[state + 1]) ELSE {}

\* The reflexive-transitive closure of a set of states under joins
RECURSIVE JoinReach(_, _)
JoinReach(n, states) ==
    LET further == states \cup UNION { JoinedDirectly(n, s) : s \in states }
    IN  IF further = states THEN states ELSE JoinReach(n, further)

\* The transitions a state has of its own
OwnTransitions(n, state) ==
    IF state < Len(n.transitions) THEN n.transitions[state + 1] ELSE <<>>

\* How often x occurs in seq
Occurrences(seq, x) == Cardinality({ i \in DOMAIN seq : seq[i] = x })

\* How often x occurs among the own transitions of the states of a set
OccurrencesAmong(n, states, x) ==
    LET all == AscendingSeq(states)
    IN  Occurrences(Flatten([i \in 1..Len(all) |-> OwnTransitions(n, all[i])]), x)

\* C24: after add_transition and join_states calls in any order,
\* get_transitions_for_state(s) returns exactly the own transitions of the
\* states in the reflexive-transitive closure of s under joins, the first
\* state inheriting from the second and never the reverse; the closure is
\* computed also when the joins form a cycle
C24_TransitionsOfJoinClosure ==
    (pc = "read") =>
        LET state   == returned.arguments[1]
            closure == JoinReach(ndfa, {state})
            every   == SeqRange(Flatten(ndfa.transitions))
        IN  /\ get_join_closure(ndfa, state) = closure
            /\ \A x \in every \cup SeqRange(returned.value) :
                   Occurrences(returned.value, x) = OccurrencesAmong(ndfa, closure, x)

\* Two states joined in a cycle, each with a transition of its own, and the
\* transitions of one of them read back with those of the other among them
C24_Witness ==
    /\ pc = "read"
    /\ \E first_state \in JoinStateIds, second_state \in JoinStateIds :
           /\ first_state # second_state
           /\ second_state \in JoinedDirectly(ndfa, first_state)
           /\ first_state \in JoinedDirectly(ndfa, second_state)
           /\ OwnTransitions(ndfa, first_state) # <<>>
           /\ OwnTransitions(ndfa, second_state) # <<>>
           /\ returned.arguments = <<first_state>>
           /\ Len(returned.value) = 2

\* ------------------------------------------------------------------------
\* Properties of symbol ranges
\* ------------------------------------------------------------------------

\* C27: SymbolRange::new with its bounds reversed fails and produces no range
C27_ReversedRangeFails ==
    (returned.call = "new" /\ returned.arguments[1] > returned.arguments[2]) =>
        (pc = "panic" /\ returned.value = <<>>)

\* lowest <= highest
ValidRange(r) == r.lowest <= r.highest

\* C28: every range returned by SymbolRange::new, whatever the order of its
\* arguments, returned by join of two valid ranges, or pushed or emitted by
\* to_non_overlapping_map has lowest <= highest
C28_RangesAreOrdered ==
    /\ \A i \in 1..Len(returned.value) : ValidRange(returned.value[i])
    /\ \A i \in 1..Len(to_process) : ValidRange(to_process[i])
    /\ \A i \in 1..Len(result) : ValidRange(result[i])

\* to_non_overlapping_map has returned pieces it cut from overlapping ranges
C28_Witness ==
    /\ pc = "done"
    /\ Len(result) >= 3
    /\ \E i \in 1..Len(result) : result[i] \notin added
    /\ \A i \in 1..Len(result) : ValidRange(result[i])

\* ------------------------------------------------------------------------
\* Properties of the DFA builder
\* ------------------------------------------------------------------------

\* C26: a transition or accept call made before the first start_state fails
\* and is never recorded in the tables of the DFA being built
C26_EarlyBuilderCallsFail ==
    (pc = "builder" /\ Len(compiler.dfa.states) = 0) =>
        (compiler.dfa.transitions = <<>> /\ compiler.dfa.accept = <<>>)

\* ------------------------------------------------------------------------
\* Properties of split readers
\* ------------------------------------------------------------------------

\* The first count symbols a reader of the source returns: the source in
\* order, then None
SourceThenNone(source, count) ==
    [i \in 1..count |-> IF i <= Len(source) THEN source[i] ELSE None]

\* C30: under every interleaving of the next_symbol calls of the two readers
\* split() returned, each reader returns the source sequence in order and
\* then None, and each source symbol is pulled from the underlying reader
\* exactly once
C30_SplitReadersSeeWholeSource ==
    pc = "split" =>
        /\ \A i \in 1..2 :
               split.read[i] = SourceThenNone(reader.symbols, Len(split.read[i]))
        /\ LET symbols_pulled == SelectSeq(split.pulled, LAMBDA s : s # None)
               furthest       == MaxOf(<<Len(split.read[1]), Len(split.read[2])>>)
           IN  /\ symbols_pulled = SubSeq(reader.symbols, 1, Len(symbols_pulled))
               /\ Len(symbols_pulled) = IF furthest <= Len(reader.symbols)
                                        THEN furthest ELSE Len(reader.symbols)

\* Both readers have returned the whole of a source of three symbols and
\* None, the second having caught up over a buffer that held all of it
C30_Witness ==
    /\ pc = "split"
    /\ Len(reader.symbols) = 3
    /\ split.read[1] = reader.symbols \o <<None, None>>
    /\ split.read[2] = reader.symbols \o <<None>>
    /\ split.positions = <<1, 0>>

\* ------------------------------------------------------------------------
\* Properties of tokenizers sharing a DFA
\* ------------------------------------------------------------------------

\* The tokens a tokenizer on the DFA emits when the calls of the script are
\* made on it alone, from the position on: next_token emits the longest
\* non-empty accepted prefix of the input left and moves past it, skip_input
\* moves past one symbol
RECURSIVE RunAlone(_, _, _, _, _)
RunAlone(d, input, script, position, emitted) ==
    IF script = <<>> THEN emitted
    ELSE LET rest == SubSeq(input, position + 1, Len(input))
             k    == LongestAccept(d, rest)
         IN  IF Head(script) = "skip_input"
             THEN RunAlone(d, input, Tail(script),
                           IF position < Len(input) THEN position + 1 ELSE position, emitted)
             ELSE IF k = None \/ k = 0
             THEN RunAlone(d, input, Tail(script), position, emitted)
             ELSE RunAlone(d, input, Tail(script), position + k,
                           Append(emitted, [start  |-> position,
                                            end    |-> position + k,
                                            output |-> d.accept[RunState(d, rest, k) + 1]]))

\* C29: matching never modifies the compiled DFA, and of two tokenizers that
\* share one DFA and read independent inputs, under every interleaving of
\* their next_token and skip_input calls, each has emitted exactly the tokens
\* it emits when its calls are made on it alone
C29_SharedDfaIsReadOnly ==
    /\ [](pc = "tokenizers" =>
             /\ tokens = RunAlone(compiler.dfa, tape.read_from.symbols, scripts[1], 0, <<>>)
             /\ second.tokens = RunAlone(compiler.dfa, second.tape.read_from.symbols,
                                         scripts[2], 0, <<>>))
    /\ [][pc = "tokenizers" => compiler' = compiler]_vars

\* Both tokenizers have emitted tokens, their calls interleaved, over
\* different inputs
C29_Witness ==
    /\ pc = "tokenizers"
    /\ tape.read_from.symbols # second.tape.read_from.symbols
    /\ Len(tokens) >= 1
    /\ Len(second.tokens) >= 1
    /\ Len(scripts[1]) = MaxSharedCalls
    /\ Len(scripts[2]) = MaxSharedCalls
    /\ tokens # second.tokens

\* ------------------------------------------------------------------------
\* Properties of find_overlapping_ranges
\* ------------------------------------------------------------------------

\* The range a lookup was made for
QueryRange == NewRange(returned.arguments[1], returned.arguments[2])

\* The ranges of a sequence that share a symbol with q, in the order of the sequence
RECURSIVE SharingWith(_, _)
SharingWith(seq, q) ==
    IF seq = <<>> THEN <<>>
    ELSE (IF SymbolsOf(Head(seq)) \cap SymbolsOf(q) # {} THEN <<Head(seq)>> ELSE <<>>)
         \o SharingWith(Tail(seq), q)

\* C31: on the map to_non_overlapping_map returned, find_overlapping_ranges(q)
\* returns exactly the pieces that share a symbol with q, ascending
C31_LookupInPartition ==
    pc = "found_in_map" =>
        /\ returned.value = SharingWith(result, QueryRange)
        /\ SortedByLowest(returned.value)

\* A lookup in a returned map that steps back to the piece that begins before
\* the range, returns two pieces and leaves others out
C31_Witness ==
    /\ pc = "found_in_map"
    /\ Len(result) >= 3
    /\ Len(returned.value) = 2
    /\ returned.value[1].lowest < QueryRange.lowest
    /\ returned.value = SharingWith(result, QueryRange)

\* C32: on a map of added ranges, overlapping or not, find_overlapping_ranges(q)
\* returns every stored range that overlaps q and no other
C32_LookupMissesNothing ==
    pc = "found" =>
        /\ \A i \in 1..Len(ranges) :
               Overlaps(ranges[i], QueryRange) => ranges[i] \in SeqRange(returned.value)
        /\ \A r \in SeqRange(returned.value) :
               r \in SeqRange(ranges) /\ Overlaps(r, QueryRange)

\* ------------------------------------------------------------------------
\* Properties of the position next_token leaves
\* ------------------------------------------------------------------------

\* The symbols of the buffer from an index up to last_symbol_index
RECURSIVE BufferedFrom(_, _)
BufferedFrom(t, index) ==
    IF index = t.last_symbol_index THEN <<>>
    ELSE <<t.buffer[index + 1]>> \o BufferedFrom(t, (index + 1) % Len(t.buffer))

\* What the tape returns from here on: the buffered symbols ahead of the read
\* position, then what the reader has left
StillToRead(t) ==
    BufferedFrom(t, t.read_index)
        \o SubSeq(t.read_from.symbols, t.read_from.pos + 1, Len(t.read_from.symbols))

\* The length of the token a step appended to tokens; 0 when it appended none
EmittedLength ==
    IF tokens' = tokens THEN 0 ELSE Last(tokens').end - Last(tokens').start

\* C33: a next_token call started at position s leaves the position at s + len
\* when it returns a token of length len and at s when it returns none, and the
\* tape goes on with exactly the symbols after the token: none lost, none twice
C33_NextTokenPosition ==
    [][(NextToken /\ pc' = "tokenizer") =>
          /\ tokens' # tokens => /\ Len(tokens') = Len(tokens) + 1
                                 /\ Last(tokens').start = tape_get_source_position(tape)
          /\ tape_get_source_position(tape')
                 = tape_get_source_position(tape) + EmittedLength
          /\ StillToRead(tape')
                 = SubSeq(StillToRead(tape), EmittedLength + 1, Len(StillToRead(tape)))]_vars

\* A token was returned after the match had read past its end: the symbols
\* read beyond the token are in the buffer ahead of the read position
C33_Witness ==
    /\ pc = "tokenizer"
    /\ Len(tokens) >= 1
    /\ Last(tokens).end = tape_get_source_position(tape)
    /\ tape.read_index # tape.last_symbol_index
    /\ tape.first_symbol_index = tape.read_index

\* ------------------------------------------------------------------------
\* Properties of the worklist of DfaCompiler::compile
\* ------------------------------------------------------------------------

\* The DFA states the transitions of a set of DFA states lead to
DfaTargets(d, from) ==
    { dfa_get_transitions_for_state(d, s)[t][2] :
          <<s, t>> \in { st \in from \X (1..Len(d.transitions)) :
                            st[2] <= Len(dfa_get_transitions_for_state(d, st[1])) } }

\* The DFA states reachable from a set of DFA states
RECURSIVE DfaReach(_, _)
DfaReach(d, from) ==
    LET further == from \cup DfaTargets(d, from)
    IN  IF further = from THEN from ELSE DfaReach(d, further)

\* C34: compile gives each distinct set of NDFA states one DFA state, processed
\* once, and every state of the DFA it builds is reachable from state 0
C34_EachSetOneState ==
    /\ pc \in {"compile", "compiled"} =>
           \A i, j \in 1..Len(compiler.states) :
               i # j => compiler.states[i].source_states # compiler.states[j].source_states
    /\ pc = "compiled" =>
           DfaReach(compiler.dfa, {0}) = 0..(dfa_count_states(compiler.dfa) - 1)

\* ------------------------------------------------------------------------
\* Properties of the tape at the end of its reader
\* ------------------------------------------------------------------------

\* read_from has returned None: it was asked more often than it gave a symbol
ReaderEnded(t) == t.asked > t.read_from.pos

\* What count calls of next_symbol return, and the tape after them
RECURSIVE ReadAhead(_, _, _)
ReadAhead(t, count, symbols) ==
    IF count = 0 THEN [symbols |-> symbols, tape |-> t]
    ELSE LET read == tape_next_symbol(t)
         IN  ReadAhead(read.tape, count - 1, Append(symbols, read.symbol))

\* C35: the tape is at the end of its reader exactly when read_from has returned
\* None; from then on read_from is not asked again, next_symbol with the whole
\* buffer read returns None and leaves the tape as it is, and after a rewind the
\* buffered symbols are returned again, then None
C35_EndOfReader ==
    pc = "tape" =>
        LET symbols == tape.read_from.symbols
            p       == tape_get_source_position(tape)
        IN  /\ tape_at_end_of_reader(tape) <=> ReaderEnded(tape)
            /\ tape.asked <= tape.read_from.pos + 1
            /\ ReaderEnded(tape) =>
                   /\ tape_next_symbol(tape).tape.asked = tape.asked
                   /\ tape.read_index = tape.last_symbol_index =>
                          tape_next_symbol(tape) = [symbol |-> None, tape |-> tape]
                   /\ \A k \in 0..MaxRewind :
                          k <= RetainedBeforeRead(tape) =>
                              /\ ~RewindPanics(tape, k)
                              /\ LET replayed == ReadAhead(tape_rewind(tape, k),
                                                           k + (Len(symbols) - p) + 1, <<>>)
                                 IN  /\ replayed.symbols
                                            = SubSeq(symbols, p - k + 1, Len(symbols)) \o <<None>>
                                     /\ replayed.tape.asked = tape.asked

\* A tape at the end of its reader with its whole buffer read, after a cut,
\* that can be rewound by two symbols or more
C35_Witness ==
    /\ pc = "tape"
    /\ tape_at_end_of_reader(tape)
    /\ tape.read_index = tape.last_symbol_index
    /\ tape.first_symbol_index > 0
    /\ RetainedBeforeRead(tape) >= 2
    /\ tape.asked = Len(tape.read_from.symbols) + 1

\* ------------------------------------------------------------------------
\* Properties of the loop of to_non_overlapping_map
\* ------------------------------------------------------------------------

\* C36: no iteration of to_non_overlapping_map calls next() on the greatest
\* symbol or prev() on the least
C36_NoStepPastExtremes ==
    (pc = "loop" /\ to_process # <<>>) => ~LoopBody(to_process, result).overflow

\* C37: every range on the pending stack of to_non_overlapping_map lies within
\* the union of the added ranges, and the loop does not end in a panic, also
\* for {[0,4],[2,5],[3,6]} and for two ranges that share one symbol
C37_PendingWithinUnion ==
    /\ pc = "loop" =>
           \A i \in 1..Len(to_process) : SymbolsOf(to_process[i]) \subseteq UnionOf(added)
    /\ added = {NewRange(0, 4), NewRange(2, 5), NewRange(3, 6)} => pc # "panic"

\* ------------------------------------------------------------------------
\* Properties of the positions from_tokenizer leaves without a token
\* ------------------------------------------------------------------------

\* The position lies in none of the tokens
OutsideTokens(position) ==
    \A i \in 1..Len(tokens) : ~(tokens[i].start <= position /\ position < tokens[i].end)

\* C38: when from_tokenizer has returned, the DFA accepts no non-empty prefix
\* of the input at any position that lies outside every token
C38_NoTokenLeftBehind ==
    pc = "annotated" =>
        LET symbols == tape.read_from.symbols
        IN  \A s \in 0..(Len(symbols) - 1) :
                OutsideTokens(s) =>
                    LongestAccept(compiler.dfa, SubSeq(symbols, s + 1, Len(symbols)))
                        \in {None, 0}

\* ------------------------------------------------------------------------
\* Properties of dropped split readers
\* ------------------------------------------------------------------------

\* C39: the position of a dropped reader stays usize::max_value() through the
\* reads and the drop of the other reader, and the clear_buffer of a drop makes
\* no more pop_front calls than the buffer holds entries
C39_DroppedStaysDropped ==
    pc = "split" =>
        /\ \A i \in 1..2 : split.dropped[i] => split.positions[i] = UsizeMax
        /\ \A reader_id \in {0, 1} :
               ~split.dropped[reader_id + 1] =>
                   clear_buffer_pops(drop_position(split, reader_id)) <= Len(split.buffer)

\* ------------------------------------------------------------------------
\* Properties of the ring buffer of the tape
\* ------------------------------------------------------------------------

\* The symbols the buffer retains, from first_symbol_index up to last_symbol_index
Retained(t) == BufferedFrom(t, t.first_symbol_index)

====
